---- MODULE Spec2Model ----
(***************************************************************************)
(* A model of the WAVE container codec of jonchammer/audio-io: the chunk   *)
(* model (wave/chunks.go), the streaming Writer (wave/writer.go) over the  *)
(* random-access bytes.Writer (bytes/writer.go), the Header and the lazy,  *)
(* typed Reader (wave/reader.go) with the Int24 packer (wave/io.go).       *)
(*                                                                         *)
(* Bytes are the integers 0..255 and a stream is a sequence of bytes.      *)
(* Integer samples are integers; a float32 sample is its IEEE bit pattern  *)
(* as two 16-bit words <<hi, lo>> and a float64 sample as four 16-bit      *)
(* words, most significant first (math.Float32bits / math.Float64bits).    *)
(***************************************************************************)
EXTENDS Integers, Sequences, FiniteSets, TLC

VARIABLES
    phase,            \* "write": the Writer is in use; "read": a Reader reads the
                      \* Writer's output; "file": a Reader reads a given file
    sampleType,       \* Writer.sampleType
    formatChunkData,  \* Writer.formatChunkData
    factChunkData,    \* Writer.factChunkData (Nil when absent)
    dataBytes,        \* Writer.dataBytes
    baseWriter,       \* the bytes.Writer under the Writer: [buf, idx]
    baseReader,       \* the bytes.Reader under the Reader: [s, i]
    header,           \* Reader.header (Nil until built)
    dataReader,       \* Reader.dataReader: Nil or the io.LimitedReader's N
    buffer,           \* Reader.buffer: Nil or [arr, len] (cap = Len(arr))
    result,           \* what the last API call returned
    hist              \* history of the calls made so far

vars == <<phase, sampleType, formatChunkData, factChunkData, dataBytes,
          baseWriter, baseReader, header, dataReader, buffer, result, hist>>

writerVars == <<sampleType, formatChunkData, factChunkData, dataBytes, baseWriter>>
readerVars == <<baseReader, header, dataReader, buffer>>

\* ------------------------------------------------------------------------
\* Bounds of the model
\* ------------------------------------------------------------------------
MaxAppends == 2
MaxAppendLen == 2
MaxFlushes == 2
MaxBadCalls == 1
MaxReads == 3
MaxReadLen == 3
MaxHeaderCalls == 2
MaxPipeReads == 1
MaxFileSamples == 4
NumPatterns == 2

\* ------------------------------------------------------------------------
\* Basic values
\* ------------------------------------------------------------------------
\* the nil error, a nil pointer to a struct or slice, a nil pointer to an integer
Nil == "nil"
NilRec == [nil |-> TRUE]
NilInt == -1

SampleTypeUint8 == 1
SampleTypeInt16 == 2
SampleTypeInt24 == 3
SampleTypeInt32 == 4
SampleTypeFloat32 == 5
SampleTypeFloat64 == 6
SampleTypes == SampleTypeUint8..SampleTypeFloat64

FormatCodePCM == 1
FormatCodeIEEEFloat == 3
FormatCodeExtensible == 65534

RIFFChunkID == <<82, 73, 70, 70>>
WaveID == <<87, 65, 86, 69>>
FormatChunkID == <<102, 109, 116, 32>>
FactChunkID == <<102, 97, 99, 116>>
DataChunkID == <<100, 97, 116, 97>>
CueChunkID == <<99, 117, 101, 32>>

\* The inputs of NewWriter the model draws from.
ChannelCounts == {1, 2, 4}
FrameRates == {8000}

Min(a, b) == IF a < b THEN a ELSE b
Max(a, b) == IF a > b THEN a ELSE b

Zeros(n) == [i \in 1..n |-> 0]

\* s[from:to] of Go, 0-based and half-open
Slice(s, from, to) == SubSeq(s, from + 1, to)

\* ------------------------------------------------------------------------
\* SampleType
\* ------------------------------------------------------------------------
Size(s) ==
    CASE s = SampleTypeUint8 -> 1
      [] s = SampleTypeInt16 -> 2
      [] s = SampleTypeInt24 -> 3
      [] s = SampleTypeInt32 -> 4
      [] s = SampleTypeFloat32 -> 4
      [] OTHER -> 8

EffectiveFormatCodeOf(s) ==
    IF s \in {SampleTypeFloat32, SampleTypeFloat64}
    THEN FormatCodeIEEEFloat
    ELSE FormatCodePCM

\* ------------------------------------------------------------------------
\* Little-endian helpers (values stay below 2^31 in the model)
\* ------------------------------------------------------------------------
uint16ToBytes(val) == <<val % 256, (val \div 256) % 256>>

uint32ToBytes(val) ==
    <<val % 256, (val \div 256) % 256, (val \div 65536) % 256, (val \div 16777216) % 256>>

readUint16(b) == b[1] + 256 * b[2]

readUint32(b) == b[1] + 256 * b[2] + 65536 * b[3] + 16777216 * b[4]

\* ------------------------------------------------------------------------
\* Sample encodings: binary.Write(LittleEndian) and WritePackedInt24
\* ------------------------------------------------------------------------
\* the four bytes of the two's complement of an int32
Int32Bytes(x) ==
    IF x >= 0
    THEN uint32ToBytes(x)
    ELSE LET y == (x + 2147483647) + 1
             b == uint32ToBytes(y)
         IN <<b[1], b[2], b[3], b[4] + 128>>

EncodeSample(s, v) ==
    CASE s = SampleTypeUint8 -> <<v>>
      [] s = SampleTypeInt16 -> uint16ToBytes(v % 65536)
      [] s = SampleTypeInt32 -> Int32Bytes(v)
      [] s = SampleTypeFloat32 -> uint16ToBytes(v[2]) \o uint16ToBytes(v[1])
      [] s = SampleTypeFloat64 ->
            uint16ToBytes(v[4]) \o uint16ToBytes(v[3]) \o
            uint16ToBytes(v[2]) \o uint16ToBytes(v[1])

\* a packing that stores the highest of the three bytes first
PackInt24_BigEndian(x) == LET b == Int32Bytes(x) IN <<b[3], b[2], b[1]>>

\* one element of WritePackedInt24: the three low bytes of the int32
PackInt24(x) == LET b == Int32Bytes(x) IN <<b[1], b[2], b[3]>>

RECURSIVE WritePackedInt24(_)
WritePackedInt24(data) ==
    IF data = <<>> THEN <<>>
    ELSE PackInt24(Head(data)) \o WritePackedInt24(Tail(data))

RECURSIVE binaryWrite(_, _)
binaryWrite(s, data) ==
    IF data = <<>> THEN <<>>
    ELSE EncodeSample(s, Head(data)) \o binaryWrite(s, Tail(data))

\* the bytes a WriteT call appends
EncodeAll(s, data) ==
    IF s = SampleTypeInt24 THEN WritePackedInt24(data) ELSE binaryWrite(s, data)

\* ------------------------------------------------------------------------
\* Sample decodings of the Reader
\* ------------------------------------------------------------------------
\* a packer that forgets the sign extension
SignExtend24_NoSign(x) == x

\* (x XOR mask) - mask with mask = 1 << 23, for 0 <= x < 2^24
SignExtend24(x) ==
    LET mask == 8388608
        xored == IF x >= mask THEN x - mask ELSE x + mask
    IN xored - mask

RECURSIVE ReadPackedInt24Into(_)
ReadPackedInt24Into(input) ==
    IF input = <<>> THEN <<>>
    ELSE <<SignExtend24(input[3] * 65536 + input[2] * 256 + input[1])>>
         \o ReadPackedInt24Into(SubSeq(input, 4, Len(input)))

\* ReadPackedInt24: [err, val]; the output slice is made before the length
\* of the input is checked
ReadPackedInt24(input) ==
    IF Len(input) % 3 # 0
    THEN [err |-> "ErrIOInvalid24BitInput", val |-> Zeros(Len(input) \div 3)]
    ELSE [err |-> Nil, val |-> ReadPackedInt24Into(input)]

\* int32(binary.LittleEndian.Uint32(b))
Int32FromBytes(b) ==
    IF b[4] >= 128
    THEN (b[1] + 256 * b[2] + 65536 * b[3] + 16777216 * (b[4] - 128)) - 2147483647 - 1
    ELSE readUint32(b)

DecodeSample(s, b) ==
    CASE s = SampleTypeUint8 -> b[1]
      [] s = SampleTypeInt16 ->
            LET u == readUint16(b) IN IF u >= 32768 THEN u - 65536 ELSE u
      [] s = SampleTypeInt32 -> Int32FromBytes(b)
      [] s = SampleTypeFloat32 -> <<readUint16(<<b[3], b[4]>>), readUint16(<<b[1], b[2]>>)>>
      [] s = SampleTypeFloat64 ->
            <<readUint16(<<b[7], b[8]>>), readUint16(<<b[5], b[6]>>),
              readUint16(<<b[3], b[4]>>), readUint16(<<b[1], b[2]>>)>>

\* ------------------------------------------------------------------------
\* Chunk model (wave/chunks.go)
\* ------------------------------------------------------------------------
Chunk(id, size, body) == [ID |-> id, Size |-> size, Body |-> body]

ChunkSerialize(c) == c.ID \o uint32ToBytes(c.Size) \o c.Body

RECURSIVE SerializeSubChunks(_)
SerializeSubChunks(subChunks) ==
    IF subChunks = <<>> THEN [body |-> <<>>, total |-> 0]
    ELSE LET c == Head(subChunks)
             rest == SerializeSubChunks(Tail(subChunks))
         IN [body |-> ChunkSerialize(c) \o rest.body,
             total |-> 8 + c.Size + (c.Size % 2) + rest.total]

\* a total that forgets the padding byte of odd chunks
RIFFChunkDataSerialize_NoPad(subChunks) ==
    LET r == SerializeSubChunks(subChunks)
        sizes == [i \in 1..Len(subChunks) |-> subChunks[i].Size % 2]
        pads == Cardinality({i \in 1..Len(subChunks) : sizes[i] = 1})
    IN [body |-> WaveID \o r.body, total |-> Len(WaveID) + r.total - pads]

\* RIFFChunkData.Serialize: the body and the total 'expected' size
RIFFChunkDataSerialize(subChunks) ==
    LET r == SerializeSubChunks(subChunks)
    IN [body |-> WaveID \o r.body, total |-> Len(WaveID) + r.total]

NewRIFFChunk(subChunks) ==
    LET r == RIFFChunkDataSerialize(subChunks)
    IN Chunk(RIFFChunkID, r.total, r.body)

\* a format chunk whose code is chosen by the sample width alone
NewFormatChunkData_ExtByWidth(channelCount, frameRate, s) ==
    LET effectiveFormatCode == EffectiveFormatCodeOf(s)
        sampleSizeBytes == Size(s)
        bitsPerSample == (sampleSizeBytes * 8) % 65536
        blockAlign == (sampleSizeBytes * channelCount) % 65536
        bytesPerSecond == frameRate * blockAlign
        isExtensible == s = SampleTypeInt24 \/ s = SampleTypeInt32
    IN [FormatCode |-> IF isExtensible THEN FormatCodeExtensible ELSE effectiveFormatCode,
        ChannelCount |-> channelCount,
        FrameRate |-> frameRate,
        ByteRate |-> bytesPerSecond,
        BlockAlign |-> blockAlign,
        BitsPerSample |-> bitsPerSample,
        ValidBitsPerSample |-> IF isExtensible THEN bitsPerSample ELSE NilInt,
        ChannelMask |-> IF isExtensible THEN 0 ELSE NilInt,
        SubFormat |-> IF isExtensible THEN effectiveFormatCode ELSE NilInt]

NewFormatChunkData(channelCount, frameRate, s) ==
    LET effectiveFormatCode == EffectiveFormatCodeOf(s)
        sampleSizeBytes == Size(s)
        bitsPerSample == (sampleSizeBytes * 8) % 65536
        blockAlign == (sampleSizeBytes * channelCount) % 65536
        bytesPerSecond == frameRate * blockAlign
        isExtensible == channelCount > 2 \/ s = SampleTypeInt24 \/ s = SampleTypeInt32
    IN [FormatCode |-> IF isExtensible THEN FormatCodeExtensible ELSE effectiveFormatCode,
        ChannelCount |-> channelCount,
        FrameRate |-> frameRate,
        ByteRate |-> bytesPerSecond,
        BlockAlign |-> blockAlign,
        BitsPerSample |-> bitsPerSample,
        ValidBitsPerSample |-> IF isExtensible THEN bitsPerSample ELSE NilInt,
        ChannelMask |-> IF isExtensible THEN 0 ELSE NilInt,
        SubFormat |-> IF isExtensible THEN effectiveFormatCode ELSE NilInt]

FormatChunkSize(c) ==
    IF c.FormatCode = FormatCodeIEEEFloat THEN 18
    ELSE IF c.FormatCode = FormatCodeExtensible THEN 40
    ELSE 16

\* a GUID tail that lost its last byte
GUIDSuffix_Short == <<0, 0, 0, 0, 16, 0, 128, 0, 0, 170, 0, 56, 155>>

GUIDSuffix == <<0, 0, 0, 0, 16, 0, 128, 0, 0, 170, 0, 56, 155, 113>>

\* FormatChunkData.Serialize: [err, bytes]
FormatChunkDataSerialize(c) ==
    LET fixed == uint16ToBytes(c.FormatCode) \o uint16ToBytes(c.ChannelCount) \o
                 uint32ToBytes(c.FrameRate) \o uint32ToBytes(c.ByteRate) \o
                 uint16ToBytes(c.BlockAlign) \o uint16ToBytes(c.BitsPerSample)
    IN IF c.FormatCode = FormatCodeIEEEFloat
       THEN [err |-> Nil, bytes |-> fixed \o uint16ToBytes(0)]
       ELSE IF c.FormatCode = FormatCodeExtensible
       THEN IF c.ValidBitsPerSample = NilInt \/ c.ChannelMask = NilInt \/ c.SubFormat = NilInt
            THEN [err |-> "ErrFmtChunkInvalidExtensible", bytes |-> <<>>]
            ELSE [err |-> Nil,
                  bytes |-> fixed \o uint16ToBytes(22) \o
                            uint16ToBytes(c.ValidBitsPerSample) \o
                            uint32ToBytes(c.ChannelMask) \o
                            uint16ToBytes(c.SubFormat) \o GUIDSuffix]
       ELSE [err |-> Nil, bytes |-> fixed]

\* NewFormatChunk; on a Serialize error the zero Chunk{} is returned
NewFormatChunk(c) ==
    LET r == FormatChunkDataSerialize(c)
    IN IF r.err # Nil THEN Chunk(<<0, 0, 0, 0>>, 0, <<>>)
       ELSE Chunk(FormatChunkID, Len(r.bytes), r.bytes)

\* a fact body that holds the frame count in 16 bits
FactChunkDataSerialize_Short(f) == uint16ToBytes(f.SampleFrames % 65536)

FactChunkDataSerialize(f) == uint32ToBytes(f.SampleFrames)

NewFactChunk(f) ==
    LET factData == FactChunkDataSerialize(f)
    IN Chunk(FactChunkID, Len(factData), factData)

NewDataChunkHeader(dataSize) == Chunk(DataChunkID, dataSize, <<>>)

\* ------------------------------------------------------------------------
\* bytes.Writer (bytes/writer.go): a growable random-access buffer [buf, idx]
\* ------------------------------------------------------------------------
WriterWrite(w, p) ==
    LET m == Len(p)
        minLength == w.idx + m
        newLen == Max(Len(w.buf), minLength)
    IN [buf |-> [i \in 1..newLen |->
                    IF i > w.idx /\ i <= minLength THEN p[i - w.idx] ELSE w.buf[i]],
        idx |-> w.idx + m]

\* a Seek that checks the lower bound only
WriterSeek_NoUpperBound(w, offset, whence) ==
    LET proposedIdx ==
            CASE whence = "SeekStart" -> offset
              [] whence = "SeekCurrent" -> w.idx + offset
              [] whence = "SeekEnd" -> Len(w.buf) + offset
              [] OTHER -> 0
    IN IF proposedIdx < 0
       THEN [w |-> w, err |-> "ErrSeekOutOfBounds"]
       ELSE [w |-> [w EXCEPT !.idx = proposedIdx], err |-> Nil]

\* whence: "SeekStart", "SeekCurrent", "SeekEnd"; any other whence leaves
\* proposedIdx at its zero value; returns [w, err]
WriterSeek(w, offset, whence) ==
    LET proposedIdx ==
            CASE whence = "SeekStart" -> offset
              [] whence = "SeekCurrent" -> w.idx + offset
              [] whence = "SeekEnd" -> Len(w.buf) + offset
              [] OTHER -> 0
    IN IF proposedIdx < 0 \/ proposedIdx > Len(w.buf)
       THEN [w |-> w, err |-> "ErrSeekOutOfBounds"]
       ELSE [w |-> [w EXCEPT !.idx = proposedIdx], err |-> Nil]

\* ------------------------------------------------------------------------
\* Writer (wave/writer.go)
\* ------------------------------------------------------------------------
ErrWriterExpected(s) ==
    CASE s = SampleTypeUint8 -> "ErrWriterExpectedUint8"
      [] s = SampleTypeInt16 -> "ErrWriterExpectedInt16"
      [] s = SampleTypeInt24 -> "ErrWriterExpectedInt24"
      [] s = SampleTypeInt32 -> "ErrWriterExpectedInt32"
      [] s = SampleTypeFloat32 -> "ErrWriterExpectedFloat32"
      [] s = SampleTypeFloat64 -> "ErrWriterExpectedFloat64"

\* a root chunk that leaves the fact chunk out while it holds no frames
getRootChunk_FactWhenFrames(fmt, fact, nbytes) ==
    LET subChunks == <<NewFormatChunk(fmt)>> \o
                     (IF fact # NilRec /\ fact.SampleFrames > 0
                      THEN <<NewFactChunk(fact)>> ELSE <<>>) \o
                     <<NewDataChunkHeader(nbytes)>>
    IN NewRIFFChunk(subChunks)

getRootChunk(fmt, fact, nbytes) ==
    LET subChunks == <<NewFormatChunk(fmt)>> \o
                     (IF fact # NilRec THEN <<NewFactChunk(fact)>> ELSE <<>>) \o
                     <<NewDataChunkHeader(nbytes)>>
    IN NewRIFFChunk(subChunks)

\* the bytes one writePreamble call writes at offset 0
preambleBytes(fmt, fact, nbytes) == ChunkSerialize(getRootChunk(fmt, fact, nbytes))

\* writePreamble: [w, err]
writePreamble(w, fmt, fact, nbytes) ==
    LET writeAt(sk) ==
            IF sk.err # Nil THEN sk
            ELSE [w |-> WriterWrite(sk.w, preambleBytes(fmt, fact, nbytes)), err |-> Nil]
    IN writeAt(WriterSeek(w, 0, "SeekStart"))

\* a write that rewrites the preamble with the current byte count every time
write_AlwaysPreamble(w, fmt, fact, nbytes, s, data) ==
    LET append(sk) ==
            IF sk.err # Nil THEN [w |-> sk.w, err |-> sk.err, preamble |-> nbytes = 0]
            ELSE [w |-> WriterWrite(sk.w, EncodeAll(s, data)), err |-> Nil,
                  preamble |-> nbytes = 0]
        afterPreamble(pre) ==
            IF pre.err # Nil THEN [w |-> pre.w, err |-> pre.err, preamble |-> FALSE]
            ELSE append(WriterSeek(pre.w, 0, "SeekEnd"))
    IN afterPreamble(writePreamble(w, fmt, fact, nbytes))

\* write / writeInt24: [w, err, preamble]
write(w, fmt, fact, nbytes, s, data) ==
    LET append(sk) ==
            IF sk.err # Nil THEN [w |-> sk.w, err |-> sk.err, preamble |-> nbytes = 0]
            ELSE [w |-> WriterWrite(sk.w, EncodeAll(s, data)), err |-> Nil,
                  preamble |-> nbytes = 0]
        afterPreamble(pre) ==
            IF pre.err # Nil THEN [w |-> pre.w, err |-> pre.err, preamble |-> FALSE]
            ELSE append(WriterSeek(pre.w, 0, "SeekEnd"))
    IN afterPreamble(IF nbytes = 0 THEN writePreamble(w, fmt, fact, nbytes)
                     ELSE [w |-> w, err |-> Nil])

\* The samples the model appends: NumPatterns rotations of a few values of
\* each type, the extreme ones included, one rotation after the other.
SampleValues(s) ==
    CASE s = SampleTypeUint8 -> <<200, 1, 255>>
      [] s = SampleTypeInt16 -> <<-32768, 32767, 258>>
      [] s = SampleTypeInt24 -> <<-8388608, 8388607, -66052, 66051>>
      [] s = SampleTypeInt32 -> <<(-2147483647) - 1, 2147483647, 16909060>>
      [] s = SampleTypeFloat32 -> <<<<16256, 0>>, <<49088, 1>>, <<15820, 52429>>>>
      [] s = SampleTypeFloat64 ->
            <<<<16368, 0, 0, 0>>, <<16313, 39321, 39321, 39322>>, <<49156, 0, 0, 1>>>>

SampleData(s, n, off) ==
    LET vals == SampleValues(s)
    IN [j \in 1..n |-> vals[((off + j - 1) % Len(vals)) + 1]]

Result(op, s, err, n, data) == [op |-> op, type |-> s, err |-> err, n |-> n, data |-> data]

\* a type check that lets every call through
typeMismatch_Never(configured, s) == FALSE

\* the type check every WriteT starts with: w.sampleType != SampleTypeT
typeMismatch(configured, s) == configured # s

\* WriteUint8 .. WriteFloat64, called with the samples 'data' of type s
WriteT(s, data) ==
    /\ phase = "write"
    /\ LET returned(r) ==
               /\ baseWriter' = r.w
               /\ result' = Result("Write", s, r.err, 0, <<>>)
               /\ dataBytes' = IF r.err = Nil THEN dataBytes + Size(sampleType) * Len(data)
                               ELSE dataBytes
               /\ hist' = [hist EXCEPT
                             !.appends = @ + 1,
                             !.samples = IF r.err = Nil THEN @ \o data ELSE @,
                             !.preambles = IF r.preamble THEN @ + 1 ELSE @,
                             !.preambleLens =
                                 IF r.preamble
                                 THEN @ \cup {Len(preambleBytes(formatChunkData,
                                                  factChunkData, dataBytes))}
                                 ELSE @]
       IN IF typeMismatch(sampleType, s)
          THEN /\ hist.badCalls < MaxBadCalls
               /\ result' = Result("Write", s, ErrWriterExpected(s), 0, <<>>)
               /\ hist' = [hist EXCEPT !.badCalls = @ + 1]
               /\ UNCHANGED <<dataBytes, baseWriter>>
          ELSE /\ hist.appends < MaxAppends
               /\ returned(write(baseWriter, formatChunkData, factChunkData, dataBytes,
                                 s, data))
    /\ UNCHANGED <<phase, sampleType, formatChunkData, factChunkData, readerVars>>

WriteCall == \E s \in SampleTypes, n \in 0..MaxAppendLen :
              /\ (s # sampleType) => n = 1
              /\ WriteT(s, SampleData(s, n, hist.appends % NumPatterns))

\* an alignment check against the channel count instead of the frame size
remainder_OfChannels(nbytes, fmt) == nbytes % fmt.ChannelCount

\* the alignment check of Flush: dataBytes % blockAlign
remainder(nbytes, fmt) == nbytes % fmt.BlockAlign

\* a frame count that counts samples
sampleFrames_AsSamples(nbytes, fmt) == nbytes \div (fmt.BitsPerSample \div 8)

\* the SampleFrames value Flush stores in the fact chunk
sampleFrames(nbytes, fmt) == nbytes \div fmt.BlockAlign

\* a Flush that never pads
padding_Never(nbytes) == 0

\* the number of padding bytes Flush adds: dataBytes & 1
padding(nbytes) == nbytes % 2

\* a Flush that writes the padding byte before it checks the byte count
Flush_PadsFirst ==
    /\ phase = "write"
    /\ hist.flushes < MaxFlushes
    /\ LET returned(fact, r) ==
               /\ factChunkData' = fact
               /\ baseWriter' = r.w
               /\ result' = Result("Flush", sampleType, r.err, 0, <<>>)
               /\ hist' = [hist EXCEPT
                             !.flushes = @ + 1,
                             !.okFlushes = IF r.err = Nil THEN @ + 1 ELSE @,
                             !.preambles = @ + 1,
                             !.preambleLens =
                                 @ \cup {Len(preambleBytes(formatChunkData, fact, dataBytes))}]
           padded(fact) ==
               returned(fact,
                        writePreamble(IF padding(dataBytes) # 0
                                      THEN WriterWrite(baseWriter, Zeros(1))
                                      ELSE baseWriter,
                                      formatChunkData, fact, dataBytes))
       IN IF formatChunkData.BlockAlign = 0
          THEN /\ result' = Result("Flush", sampleType, "panic", 0, <<>>)
               /\ hist' = [hist EXCEPT !.flushes = @ + 1]
               /\ UNCHANGED <<factChunkData, baseWriter>>
          ELSE IF remainder(dataBytes, formatChunkData) # 0
          THEN /\ result' = Result("Flush", sampleType, "ErrWriterInvalidByteCount", 0, <<>>)
               /\ hist' = [hist EXCEPT !.flushes = @ + 1]
               /\ baseWriter' = IF padding(dataBytes) # 0
                                THEN WriterWrite(baseWriter, Zeros(1))
                                ELSE baseWriter
               /\ UNCHANGED factChunkData
          ELSE padded(IF factChunkData # NilRec
                      THEN [SampleFrames |-> sampleFrames(dataBytes, formatChunkData)]
                      ELSE NilRec)
    /\ UNCHANGED <<phase, sampleType, formatChunkData, dataBytes, readerVars>>

\* Flush; a zero BlockAlign makes the remainder a division by zero
Flush ==
    /\ phase = "write"
    /\ hist.flushes < MaxFlushes
    /\ LET returned(fact, r) ==
               /\ factChunkData' = fact
               /\ baseWriter' = r.w
               /\ result' = Result("Flush", sampleType, r.err, 0, <<>>)
               /\ hist' = [hist EXCEPT
                             !.flushes = @ + 1,
                             !.okFlushes = IF r.err = Nil THEN @ + 1 ELSE @,
                             !.preambles = @ + 1,
                             !.preambleLens =
                                 @ \cup {Len(preambleBytes(formatChunkData, fact, dataBytes))}]
           padded(fact) ==
               returned(fact,
                        writePreamble(IF padding(dataBytes) # 0
                                      THEN WriterWrite(baseWriter, Zeros(1))
                                      ELSE baseWriter,
                                      formatChunkData, fact, dataBytes))
       IN IF formatChunkData.BlockAlign = 0
          THEN /\ result' = Result("Flush", sampleType, "panic", 0, <<>>)
               /\ hist' = [hist EXCEPT !.flushes = @ + 1]
               /\ UNCHANGED <<factChunkData, baseWriter>>
          ELSE IF remainder(dataBytes, formatChunkData) # 0
          THEN /\ result' = Result("Flush", sampleType, "ErrWriterInvalidByteCount", 0, <<>>)
               /\ hist' = [hist EXCEPT !.flushes = @ + 1]
               /\ UNCHANGED <<factChunkData, baseWriter>>
          ELSE padded(IF factChunkData # NilRec
                      THEN [SampleFrames |-> sampleFrames(dataBytes, formatChunkData)]
                      ELSE NilRec)
    /\ UNCHANGED <<phase, sampleType, formatChunkData, dataBytes, readerVars>>

\* ------------------------------------------------------------------------
\* The io.ReadSeeker under the Reader: a bytes.Reader [s, i]
\* ------------------------------------------------------------------------
\* Read(p) with len(p) = m: [r, n, err, bytes]
BytesRead(r, m) ==
    IF r.i >= Len(r.s)
    THEN [r |-> r, n |-> 0, err |-> "EOF", bytes |-> <<>>]
    ELSE LET n == Min(m, Len(r.s) - r.i)
         IN [r |-> [r EXCEPT !.i = @ + n], n |-> n, err |-> Nil,
             bytes |-> Slice(r.s, r.i, r.i + n)]

\* io.ReadFull(r, p) with len(p) = m on a bytes.Reader
ReadFull(r, m) ==
    LET full(rd) == IF rd.n = m \/ rd.n = 0 THEN rd
                    ELSE [rd EXCEPT !.err = "ErrUnexpectedEOF"]
    IN IF m = 0 THEN [r |-> r, n |-> 0, err |-> Nil, bytes |-> <<>>]
       ELSE full(BytesRead(r, m))

\* Seek(offset, io.SeekStart): any non-negative offset is accepted
ReaderSeek(r, offset) ==
    IF offset < 0 THEN [r |-> r, err |-> "ErrNegativePosition"]
    ELSE [r |-> [r EXCEPT !.i = offset], err |-> Nil]

\* ------------------------------------------------------------------------
\* ReadRIFFChunk (wave/chunks.go)
\* ------------------------------------------------------------------------
RiffFail(r, err) == [err |-> err, r |-> r, fileSize |-> 0, chunks |-> <<>>]

\* the scan loop; currentOffset is the code's own count of the bytes read
RECURSIVE scanSubChunks(_, _, _, _, _)
scanSubChunks(r, fileSize, currentOffset, dataChunkOffset, chunks) ==
    LET offset == currentOffset + 8
        \* after the seek back to the data chunk that ends the scan
        atData(sk) ==
            IF sk.err # Nil THEN RiffFail(sk.r, sk.err)
            ELSE [err |-> Nil, r |-> sk.r, fileSize |-> fileSize, chunks |-> chunks]
        \* after the seek over the body of a data chunk
        overData(sk, chunk) ==
            IF sk.err # Nil THEN RiffFail(sk.r, sk.err)
            ELSE scanSubChunks(sk.r, fileSize, sk.r.i, offset, chunks \o <<chunk>>)
        \* after the read of a padding byte
        afterPad(pad, chunk) ==
            IF pad.err # Nil THEN RiffFail(pad.r, pad.err)
            ELSE scanSubChunks(pad.r, fileSize, offset + chunk.Size + 1, dataChunkOffset,
                               chunks \o <<chunk>>)
        \* after the read of the body of any other chunk
        afterBody(body, chunkID, chunkSize) ==
            IF body.err # Nil THEN RiffFail(body.r, body.err)
            ELSE IF chunkSize % 2 # 0
            THEN afterPad(BytesRead(body.r, 1), Chunk(chunkID, chunkSize, body.bytes))
            ELSE scanSubChunks(body.r, fileSize, offset + chunkSize, dataChunkOffset,
                               chunks \o <<Chunk(chunkID, chunkSize, body.bytes)>>)
        withSize(r2, chunkID, chunkSize) ==
            IF chunkID # DataChunkID
            THEN afterBody(ReadFull(r2, chunkSize), chunkID, chunkSize)
            ELSE overData(ReaderSeek(r2, offset + chunkSize + (chunkSize % 2)),
                          Chunk(chunkID, chunkSize, <<>>))
        afterSize(szRd, chunkID) ==
            IF szRd.err # Nil THEN RiffFail(szRd.r, szRd.err)
            ELSE withSize(szRd.r, chunkID, readUint32(szRd.bytes))
        afterID(idRd) ==
            IF idRd.err # Nil THEN RiffFail(idRd.r, idRd.err)
            ELSE afterSize(ReadFull(idRd.r, 4), idRd.bytes)
    IN IF currentOffset >= fileSize
       THEN atData(ReaderSeek(r, dataChunkOffset))
       ELSE afterID(ReadFull(r, 4))

\* a tag comparison that accepts any four bytes
tagMismatch_Never(bytes, tag) == FALSE

\* !bytes.Equal(buffer[:4], tag)
tagMismatch(bytes, tag) == bytes # tag

\* [err, r, fileSize, chunks]
ReadRIFFChunk(r) ==
    LET afterWave(wave, fileSize) ==
            IF wave.err # Nil THEN RiffFail(wave.r, wave.err)
            ELSE IF tagMismatch(wave.bytes, WaveID)
            THEN RiffFail(wave.r, "ErrRIFFChunkCorruptedHeader")
            ELSE scanSubChunks(wave.r, fileSize, 12, 0, <<>>)
        afterSize(sz) ==
            IF sz.err # Nil THEN RiffFail(sz.r, sz.err)
            ELSE afterWave(ReadFull(sz.r, 4), readUint32(sz.bytes) + 8)
        afterRIFF(riff) ==
            IF riff.err # Nil THEN RiffFail(riff.r, riff.err)
            ELSE IF tagMismatch(riff.bytes, RIFFChunkID)
            THEN RiffFail(riff.r, "ErrRIFFChunkCorruptedHeader")
            ELSE afterSize(ReadFull(riff.r, 4))
    IN afterRIFF(ReadFull(r, 4))

\* ------------------------------------------------------------------------
\* Chunk payload deserializers (wave/chunks.go); a slice expression past the
\* end of the payload panics
\* ------------------------------------------------------------------------
\* a deserializer that takes only an extension of more than 22 bytes
DeserializeFormatChunk_Above22(data) ==
    IF Len(data) < 16 THEN [err |-> "ErrFmtChunkCorruptedPayload", val |-> NilRec]
    ELSE
    LET fixed == [FormatCode |-> readUint16(Slice(data, 0, 2)),
                  ChannelCount |-> readUint16(Slice(data, 2, 4)),
                  FrameRate |-> readUint32(Slice(data, 4, 8)),
                  ByteRate |-> readUint32(Slice(data, 8, 12)),
                  BlockAlign |-> readUint16(Slice(data, 12, 14)),
                  BitsPerSample |-> readUint16(Slice(data, 14, 16))]
        noExt == [ValidBitsPerSample |-> NilInt, ChannelMask |-> NilInt, SubFormat |-> NilInt]
    IN IF Len(data) >= 18 /\ readUint16(Slice(data, 16, 18)) > 22
       THEN IF Len(data) < 26 THEN [err |-> "panic", val |-> NilRec]
            ELSE [err |-> Nil,
                  val |-> fixed @@ [ValidBitsPerSample |-> readUint16(Slice(data, 18, 20)),
                                    ChannelMask |-> readUint32(Slice(data, 20, 24)),
                                    SubFormat |-> readUint16(Slice(data, 24, 26))]]
       ELSE [err |-> Nil, val |-> fixed @@ noExt]

DeserializeFormatChunk(data) ==
    IF Len(data) < 16 THEN [err |-> "ErrFmtChunkCorruptedPayload", val |-> NilRec]
    ELSE
    LET fixed == [FormatCode |-> readUint16(Slice(data, 0, 2)),
                  ChannelCount |-> readUint16(Slice(data, 2, 4)),
                  FrameRate |-> readUint32(Slice(data, 4, 8)),
                  ByteRate |-> readUint32(Slice(data, 8, 12)),
                  BlockAlign |-> readUint16(Slice(data, 12, 14)),
                  BitsPerSample |-> readUint16(Slice(data, 14, 16))]
        noExt == [ValidBitsPerSample |-> NilInt, ChannelMask |-> NilInt, SubFormat |-> NilInt]
    IN IF Len(data) >= 18 /\ readUint16(Slice(data, 16, 18)) >= 22
       THEN IF Len(data) < 26 THEN [err |-> "panic", val |-> NilRec]
            ELSE [err |-> Nil,
                  val |-> fixed @@ [ValidBitsPerSample |-> readUint16(Slice(data, 18, 20)),
                                    ChannelMask |-> readUint32(Slice(data, 20, 24)),
                                    SubFormat |-> readUint16(Slice(data, 24, 26))]]
       ELSE [err |-> Nil, val |-> fixed @@ noExt]

DeserializeFactChunk(data) ==
    IF Len(data) < 4 THEN [err |-> "ErrFactChunkCorruptedPayload", val |-> NilRec]
    ELSE [err |-> Nil, val |-> [SampleFrames |-> readUint32(Slice(data, 0, 4))]]

\* every cue point is read from the bytes 4..28 of the payload
DeserializeCueChunk(data) ==
    IF Len(data) < 4 THEN [err |-> "ErrCueChunkCorruptedPayload", val |-> NilRec]
    ELSE
    LET numCuePoints == readUint32(Slice(data, 0, 4)) IN
    IF Len(data) < numCuePoints * 24 THEN [err |-> "ErrCueChunkCorruptedPayload", val |-> NilRec]
    ELSE IF numCuePoints > 0 /\ Len(data) < 28 THEN [err |-> "panic", val |-> NilRec]
    ELSE [err |-> Nil,
          val |-> [CuePoints |->
                     [i \in 1..numCuePoints |->
                        [ID |-> readUint32(Slice(data, 4, 8)),
                         Position |-> readUint32(Slice(data, 8, 12)),
                         FCCChunk |-> Slice(data, 12, 16),
                         ChunkStart |-> readUint32(Slice(data, 16, 20)),
                         BlockStart |-> readUint32(Slice(data, 20, 24)),
                         SampleOffset |-> readUint32(Slice(data, 24, 28))]]]]

\* ------------------------------------------------------------------------
\* Header
\* ------------------------------------------------------------------------
\* a data length taken from the bytes held for the chunk
dataChunkBytes_OfBody(chunk) == Len(chunk.Body)

\* dataBytes = chunk.Size
dataChunkBytes(chunk) == chunk.Size

RECURSIVE classifyChunks(_, _)
classifyChunks(chunks, acc) ==
    LET fmtChunk(d) == IF d.err # Nil THEN [acc EXCEPT !.err = d.err]
                       ELSE classifyChunks(Tail(chunks), [acc EXCEPT !.formatChunk = d.val])
        factChunk(d) == IF d.err # Nil THEN [acc EXCEPT !.err = d.err]
                        ELSE classifyChunks(Tail(chunks), [acc EXCEPT !.factChunk = d.val])
        cueChunk(d) == IF d.err # Nil THEN [acc EXCEPT !.err = d.err]
                       ELSE classifyChunks(Tail(chunks), [acc EXCEPT !.cueChunk = d.val])
        classify(chunk) ==
            IF chunk.ID = FormatChunkID THEN fmtChunk(DeserializeFormatChunk(chunk.Body))
            ELSE IF chunk.ID = FactChunkID THEN factChunk(DeserializeFactChunk(chunk.Body))
            ELSE IF chunk.ID = CueChunkID THEN cueChunk(DeserializeCueChunk(chunk.Body))
            ELSE IF chunk.ID = DataChunkID
            THEN classifyChunks(Tail(chunks), [acc EXCEPT !.dataBytes = dataChunkBytes(chunk)])
            ELSE classifyChunks(Tail(chunks),
                                [acc EXCEPT !.additionalChunks = @ \o <<chunk>>])
    IN IF chunks = <<>> THEN acc ELSE classify(Head(chunks))

\* a parse that walks the sub-chunks from the last to the first
parseHeaderFromRIFFChunk_Backwards(totalFileSize, subChunks) ==
    LET build(acc) ==
            IF acc.err # Nil THEN [err |-> acc.err, header |-> NilRec]
            ELSE IF acc.formatChunk = NilRec
            THEN [err |-> "ErrHeaderMissingFmtChunk", header |-> NilRec]
            ELSE [err |-> Nil,
                  header |-> [ReportedFileSizeBytes |-> totalFileSize,
                              FormatData |-> acc.formatChunk,
                              FactData |-> acc.factChunk,
                              CueData |-> acc.cueChunk,
                              DataBytes |-> acc.dataBytes,
                              AdditionalChunks |-> acc.additionalChunks]]
    IN build(classifyChunks([i \in 1..Len(subChunks) |-> subChunks[Len(subChunks) + 1 - i]],
                 [err |-> Nil, formatChunk |-> NilRec, factChunk |-> NilRec,
                  cueChunk |-> NilRec, dataBytes |-> 0, additionalChunks |-> <<>>]))

\* [err, header]
parseHeaderFromRIFFChunk(totalFileSize, subChunks) ==
    LET build(acc) ==
            IF acc.err # Nil THEN [err |-> acc.err, header |-> NilRec]
            ELSE IF acc.formatChunk = NilRec
            THEN [err |-> "ErrHeaderMissingFmtChunk", header |-> NilRec]
            ELSE [err |-> Nil,
                  header |-> [ReportedFileSizeBytes |-> totalFileSize,
                              FormatData |-> acc.formatChunk,
                              FactData |-> acc.factChunk,
                              CueData |-> acc.cueChunk,
                              DataBytes |-> acc.dataBytes,
                              AdditionalChunks |-> acc.additionalChunks]]
    IN build(classifyChunks(subChunks,
                 [err |-> Nil, formatChunk |-> NilRec, factChunk |-> NilRec,
                  cueChunk |-> NilRec, dataBytes |-> 0, additionalChunks |-> <<>>]))

FormatCodeIsValid(f) ==
    f = FormatCodePCM \/ f = FormatCodeIEEEFloat \/ f = FormatCodeExtensible

\* FormatChunkData.EffectiveFormatCode: [err, val]
EffectiveFormatCode(c) ==
    IF c.FormatCode = FormatCodeExtensible
    THEN IF c.SubFormat = NilInt THEN [err |-> "ErrFmtChunkMissingSubFormat", val |-> 255]
         ELSE [err |-> Nil, val |-> c.SubFormat]
    ELSE [err |-> Nil, val |-> c.FormatCode]

\* Header.SampleType: [err, val]
HeaderSampleType(h) ==
    LET fc == EffectiveFormatCode(h.FormatData)
        bits == h.FormatData.BitsPerSample
    IN IF fc.err # Nil THEN [err |-> fc.err, val |-> -1]
       ELSE IF ~FormatCodeIsValid(fc.val) THEN [err |-> "invalid format code", val |-> -1]
       ELSE IF fc.val = FormatCodePCM
       THEN CASE bits = 8 -> [err |-> Nil, val |-> SampleTypeUint8]
              [] bits = 16 -> [err |-> Nil, val |-> SampleTypeInt16]
              [] bits = 24 -> [err |-> Nil, val |-> SampleTypeInt24]
              [] bits = 32 -> [err |-> Nil, val |-> SampleTypeInt32]
              [] OTHER -> [err |-> "unknown PCM type", val |-> -1]
       ELSE CASE bits = 32 -> [err |-> Nil, val |-> SampleTypeFloat32]
              [] bits = 64 -> [err |-> Nil, val |-> SampleTypeFloat64]
              [] OTHER -> [err |-> "unknown IEEE float type", val |-> -1]

\* Header.SampleCount; a bit width below 8 divides by zero
SampleCount(h) ==
    IF h.FormatData.BitsPerSample \div 8 = 0 THEN [err |-> "panic", val |-> 0]
    ELSE [err |-> Nil, val |-> h.DataBytes \div (h.FormatData.BitsPerSample \div 8)]

\* Header.FrameCount; a zero block align divides by zero
FrameCount(h) ==
    IF h.FormatData.BlockAlign = 0 THEN [err |-> "panic", val |-> 0]
    ELSE [err |-> Nil, val |-> h.DataBytes \div h.FormatData.BlockAlign]

\* a validation that does not look at the byte rate
Validate_NoByteRate(h) ==
    LET m == h.FormatData.BitsPerSample \div 8
        extensions ==
            IF h.FormatData.FormatCode # FormatCodeExtensible
            THEN IF h.FormatData.ValidBitsPerSample # NilInt THEN "valid bits per sample"
                 ELSE IF h.FormatData.ChannelMask # NilInt THEN "channel mask"
                 ELSE IF h.FormatData.SubFormat # NilInt THEN "sub format"
                 ELSE Nil
            ELSE Nil
        frames(fc) ==
            IF fc.err # Nil THEN fc.err
            ELSE IF h.FactData.SampleFrames # fc.val THEN "sample frames"
            ELSE extensions
    IN IF ~FormatCodeIsValid(h.FormatData.FormatCode) THEN "format code"
       ELSE IF h.FormatData.BlockAlign # ((m % 65536) * h.FormatData.ChannelCount) % 65536
       THEN "block align"
       ELSE IF h.FactData # NilRec THEN frames(FrameCount(h))
       ELSE extensions

\* Header.Validate: the error it returns, named by the field it reports.
\* The byte-rate product is a uint32 in the code; the frame rates and channel
\* counts used here keep it below 2^31, so it never wraps.
Validate(h) ==
    LET m == h.FormatData.BitsPerSample \div 8
        extensions ==
            IF h.FormatData.FormatCode # FormatCodeExtensible
            THEN IF h.FormatData.ValidBitsPerSample # NilInt THEN "valid bits per sample"
                 ELSE IF h.FormatData.ChannelMask # NilInt THEN "channel mask"
                 ELSE IF h.FormatData.SubFormat # NilInt THEN "sub format"
                 ELSE Nil
            ELSE Nil
        frames(fc) ==
            IF fc.err # Nil THEN fc.err
            ELSE IF h.FactData.SampleFrames # fc.val THEN "sample frames"
            ELSE extensions
    IN IF ~FormatCodeIsValid(h.FormatData.FormatCode) THEN "format code"
       ELSE IF h.FormatData.ByteRate # h.FormatData.FrameRate * m * h.FormatData.ChannelCount
       THEN "byte rate"
       ELSE IF h.FormatData.BlockAlign # ((m % 65536) * h.FormatData.ChannelCount) % 65536
       THEN "block align"
       ELSE IF h.FactData # NilRec THEN frames(FrameCount(h))
       ELSE extensions

\* ------------------------------------------------------------------------
\* Reader (wave/reader.go)
\* ------------------------------------------------------------------------
ErrReaderUnexpected(s) ==
    CASE s = SampleTypeUint8 -> "ErrReaderUnexpectedUint8"
      [] s = SampleTypeInt16 -> "ErrReaderUnexpectedInt16"
      [] s = SampleTypeInt24 -> "ErrReaderUnexpectedInt24"
      [] s = SampleTypeInt32 -> "ErrReaderUnexpectedInt32"
      [] s = SampleTypeFloat32 -> "ErrReaderUnexpectedFloat32"
      [] s = SampleTypeFloat64 -> "ErrReaderUnexpectedFloat64"

\* a limit that lets the padding byte of an odd data chunk through
dataLimit_WithPadding(h) == h.DataBytes + (h.DataBytes % 2)

\* the N of io.LimitReader(r.baseReader, int64(header.DataBytes))
dataLimit(h) == h.DataBytes

\* Reader.Header: [err, baseReader, header, dataReader, scanned]
ReaderHeader(br, h, dr) ==
    LET fail(err, r) == [err |-> err, baseReader |-> r, header |-> NilRec, dataReader |-> dr,
                         scanned |-> TRUE]
        parsed(ph, r) ==
            IF ph.err # Nil THEN fail(ph.err, r)
            ELSE [err |-> Nil, baseReader |-> r, header |-> ph.header,
                  dataReader |-> dataLimit(ph.header), scanned |-> TRUE]
        scanned(riff) ==
            IF riff.err # Nil THEN fail(riff.err, riff.r)
            ELSE parsed(parseHeaderFromRIFFChunk(riff.fileSize, riff.chunks), riff.r)
    IN IF h # NilRec
       THEN [err |-> Nil, baseReader |-> br, header |-> h, dataReader |-> dr,
             scanned |-> FALSE]
       ELSE scanned(ReadRIFFChunk(br))

\* io.LimitedReader.Read(p) with len(p) = m over the base reader: [r, N, n, err, bytes]
LimitedRead(br, N, m) ==
    LET limited(rd) == [r |-> rd.r, N |-> N - rd.n, n |-> rd.n, err |-> rd.err,
                        bytes |-> rd.bytes]
    IN IF N <= 0 THEN [r |-> br, N |-> N, n |-> 0, err |-> "EOF", bytes |-> <<>>]
       ELSE limited(BytesRead(br, Min(m, N)))

\* the loop of io.ReadAtLeast(dataReader, buf, min) with min = len(buf)
RECURSIVE readAtLeast(_, _, _, _)
readAtLeast(br, N, min, got) ==
    LET ret(rd, all, err) == [r |-> rd.r, N |-> rd.N, n |-> Len(all), err |-> err,
                              bytes |-> all]
        step(rd, all) ==
            IF rd.err = Nil THEN readAtLeast(rd.r, rd.N, min, all)
            ELSE IF Len(all) >= min THEN ret(rd, all, Nil)
            ELSE IF Len(all) > 0 /\ rd.err = "EOF" THEN ret(rd, all, "ErrUnexpectedEOF")
            ELSE ret(rd, all, rd.err)
        read(rd) == step(rd, got \o rd.bytes)
    IN IF Len(got) >= min
       THEN [r |-> br, N |-> N, n |-> Len(got), err |-> Nil, bytes |-> got]
       ELSE read(LimitedRead(br, N, min - Len(got)))

\* the scratch buffer after the buffer management of readChunk
growBuffer(buf, maxBytes) ==
    IF buf = NilRec THEN [arr |-> Zeros(maxBytes), len |-> maxBytes]
    ELSE IF buf.len < maxBytes
    THEN [arr |-> SubSeq(buf.arr, 1, buf.len) \o Zeros(maxBytes - buf.len), len |-> buf.len]
    ELSE buf

\* readChunk: [r, N, n, err, buffer]
readChunk(br, N, buf, maxBytes) ==
    LET filled(grown, rd) ==
            [r |-> rd.r, N |-> rd.N, n |-> rd.n, err |-> rd.err,
             buffer |-> [grown EXCEPT !.arr = rd.bytes \o SubSeq(@, rd.n + 1, Len(@))]]
    IN filled(growBuffer(buf, maxBytes), readAtLeast(br, N, maxBytes, <<>>))

\* the decode loop of ReadInt16, ReadInt32, ReadFloat32 and ReadFloat64:
\* r.buffer[n*i:] is sliced against len(r.buffer)
decodeLoop(s, buf, samplesRead) ==
    LET n == Size(s) IN
    IF samplesRead * n > buf.len THEN [err |-> "panic", data |-> <<>>]
    ELSE [err |-> Nil,
          data |-> [i \in 1..samplesRead |->
                      DecodeSample(s, Slice(buf.arr, n * (i - 1), n * i))]]

\* the body of a ReadT call once the sample type matched:
\* [r, N, buffer, n, err, data]
readSamples(s, br, N, buf, k) ==
    LET n == Size(s)
        direct(rd) == [r |-> rd.r, N |-> rd.N, buffer |-> buf, n |-> rd.n, err |-> rd.err,
                       data |-> rd.bytes]
        decoded(rc, samplesRead, dec) ==
            IF dec.err # Nil
            THEN [r |-> rc.r, N |-> rc.N, buffer |-> rc.buffer, n |-> 0,
                  err |-> dec.err, data |-> <<>>]
            ELSE [r |-> rc.r, N |-> rc.N, buffer |-> rc.buffer, n |-> samplesRead,
                  err |-> rc.err, data |-> dec.data]
        staged(rc, samplesRead, extraBytes) ==
            IF s = SampleTypeInt24
            THEN [r |-> rc.r, N |-> rc.N, buffer |-> rc.buffer, n |-> samplesRead,
                  err |-> rc.err,
                  data |-> ReadPackedInt24Into(Slice(rc.buffer.arr, 0, rc.n - extraBytes))]
            ELSE decoded(rc, samplesRead, decodeLoop(s, rc.buffer, samplesRead))
        chunkRead(rc) == staged(rc, rc.n \div n, rc.n % n)
    IN IF s = SampleTypeUint8
       THEN direct(LimitedRead(br, N, k))
       ELSE chunkRead(readChunk(br, N, buf, k * n))

\* how many calls of each kind the model makes on one Reader
ReadLimit == IF phase = "file" THEN MaxReads ELSE MaxPipeReads
BadReadLimit == IF phase \in {"file", "scan"} THEN MaxBadCalls ELSE 0
HeaderLimit == IF phase \in {"file", "scan"} THEN MaxHeaderCalls ELSE 1

\* NewReader on the bytes the Writer produced, once a Flush succeeded
OpenReader ==
    /\ phase = "write"
    /\ result.op = "Flush" /\ result.err = Nil
    /\ phase' = "read"
    /\ baseReader' = [s |-> baseWriter.buf, i |-> 0]
    /\ header' = NilRec
    /\ dataReader' = NilInt
    /\ buffer' = NilRec
    /\ result' = Result("NewReader", 0, Nil, 0, <<>>)
    /\ hist' = [hist EXCEPT !.fileType = sampleType,
                            !.dataStart = Len(baseWriter.buf) - dataBytes - padding(dataBytes),
                            !.dataLen = dataBytes]
    /\ UNCHANGED writerVars

\* Reader.Header
HeaderCall ==
    /\ phase \in {"read", "file", "scan", "parsed"}
    /\ hist.headerCalls < HeaderLimit
    /\ LET returned(h) ==
               /\ baseReader' = h.baseReader
               /\ header' = h.header
               /\ dataReader' = h.dataReader
               /\ result' = Result("Header", 0, h.err, 0, <<>>)
               /\ hist' = [hist EXCEPT !.headerCalls = @ + 1,
                                       !.scans = IF h.scanned THEN @ + 1 ELSE @,
                                       !.first = IF hist.headerCalls = 0
                                                 THEN [err |-> h.err, header |-> h.header]
                                                 ELSE @]
       IN returned(ReaderHeader(baseReader, header, dataReader))
    /\ UNCHANGED <<phase, writerVars, buffer>>

\* a check of the resolved sample type that lets every type through
readMismatch_Never(resolved, s) == FALSE

\* the check 'sampleType != SampleTypeT' every ReadT method starts with
readMismatch(resolved, s) == resolved # s

\* ReadUint8 .. ReadFloat64, called with a buffer of k elements
ReadT(s, k) ==
    /\ phase \in {"read", "file", "scan"}
    /\ LET failed(h, scans, err) ==
               /\ hist.badReads < BadReadLimit
               /\ result' = Result("Read", s, err, 0, <<>>)
               /\ hist' = [hist EXCEPT !.badReads = @ + 1, !.scans = scans]
               /\ baseReader' = h.baseReader
               /\ dataReader' = h.dataReader
               /\ UNCHANGED buffer
           returned(rd, scans) ==
               /\ hist.reads < ReadLimit
               /\ baseReader' = rd.r
               /\ dataReader' = rd.N
               /\ buffer' = rd.buffer
               /\ result' = Result("Read", s, rd.err, rd.n, rd.data)
               /\ hist' = [hist EXCEPT !.reads = @ + 1, !.scans = scans,
                                       !.k = k,
                                       !.got = @ \o rd.data]
           typed(h, st, scans) ==
               IF st.err # Nil THEN failed(h, scans, st.err)
               ELSE IF readMismatch(st.val, s) THEN failed(h, scans, ErrReaderUnexpected(s))
               ELSE returned(readSamples(s, h.baseReader, h.dataReader, buffer, k), scans)
           withHeader(h, scans) ==
               /\ header' = h.header
               /\ IF h.err # Nil THEN failed(h, scans, h.err)
                  ELSE typed(h, HeaderSampleType(h.header), scans)
           called(h) == withHeader(h, IF h.scanned THEN hist.scans + 1 ELSE hist.scans)
       IN called(ReaderHeader(baseReader, header, dataReader))
    /\ UNCHANGED <<phase, writerVars>>

\* the buffer lengths a caller passes: on the bytes of the Writer a buffer for
\* the samples it appended, on a given file short ones and header.SampleCount()
ReadLens ==
    IF phase = "read" THEN {Len(hist.samples)}
    ELSE 0..MaxReadLen \cup
         (IF header # NilRec /\ SampleCount(header).err = Nil
          THEN {SampleCount(header).val} ELSE {})

\* the ReadT methods called on a stream that need not be a file: those of
\* the sample types its format chunks can name
ScanReadTypes == {SampleTypeUint8, SampleTypeFloat32}

\* a call of another type than the file's is made with a buffer of one element
ReadCall == \E s \in SampleTypes, k \in ReadLens :
              /\ (s # hist.fileType) => k = 1
              /\ (phase = "scan") => s \in ScanReadTypes
              /\ ReadT(s, k)

\* ------------------------------------------------------------------------
\* The Writer-then-Reader system
\* ------------------------------------------------------------------------
InitHist ==
    [appends |-> 0, flushes |-> 0, okFlushes |-> 0, badCalls |-> 0, samples |-> <<>>,
     preambles |-> 0, preambleLens |-> {},
     headerCalls |-> 0, scans |-> 0, reads |-> 0, badReads |-> 0, k |-> 0,
     got |-> <<>>, fileType |-> 0, dataStart |-> 0, dataLen |-> 0,
     kinds |-> <<>>, cut |-> NilInt, damage |-> 0, first |-> NilRec,
     corrupted |-> {}, plain |-> FALSE]

\* a constructor that adds the fact chunk for the float types only
NewWriter_FactForFloat(s, frameRate, channelCount) ==
    LET fmt == NewFormatChunkData(channelCount, frameRate, s)
    IN /\ sampleType = s
       /\ formatChunkData = fmt
       /\ factChunkData = IF EffectiveFormatCodeOf(s) # FormatCodePCM
                          THEN [SampleFrames |-> 0] ELSE NilRec
       /\ dataBytes = 0
       /\ baseWriter = [buf |-> <<>>, idx |-> 0]

\* NewWriter(baseWriter, s, frameRate, WithChannelCount(channelCount)) on an
\* empty bytes.Writer
NewWriter(s, frameRate, channelCount) ==
    LET fmt == NewFormatChunkData(channelCount, frameRate, s)
    IN /\ sampleType = s
       /\ formatChunkData = fmt
       /\ factChunkData = IF fmt.FormatCode # FormatCodePCM THEN [SampleFrames |-> 0] ELSE NilRec
       /\ dataBytes = 0
       /\ baseWriter = [buf |-> <<>>, idx |-> 0]

Init ==
    /\ phase = "write"
    /\ \E s \in SampleTypes, frameRate \in FrameRates, channelCount \in ChannelCounts :
           NewWriter(s, frameRate, channelCount)
    /\ baseReader = NilRec
    /\ header = NilRec
    /\ dataReader = NilInt
    /\ buffer = NilRec
    /\ result = Result("NewWriter", 0, Nil, 0, <<>>)
    /\ hist = InitHist

Next == WriteCall \/ Flush \/ OpenReader \/ HeaderCall \/ ReadCall

Spec == Init /\ [][Next]_vars

\* ------------------------------------------------------------------------
\* The Writer-then-Reader system over the whole range of channel counts
\* ------------------------------------------------------------------------
\* channel counts from none up to those whose block align no longer fits
\* 16 bits
WideChannelCounts == {0, 1, 2, 3, 21846, 32768, 32769}

InitWide ==
    /\ phase = "write"
    /\ \E s \in SampleTypes, frameRate \in FrameRates, channelCount \in WideChannelCounts :
           NewWriter(s, frameRate, channelCount)
    /\ baseReader = NilRec
    /\ header = NilRec
    /\ dataReader = NilInt
    /\ buffer = NilRec
    /\ result = Result("NewWriter", 0, Nil, 0, <<>>)
    /\ hist = InitHist

\* Header.Validate on the header the Reader holds
ValidateCall ==
    /\ phase \in {"read", "header", "parsed"}
    /\ header # NilRec
    /\ result' = Result("Validate", 0, Validate(header), 0, <<>>)
    /\ UNCHANGED <<phase, writerVars, baseReader, header, dataReader, buffer, hist>>

NextWide == WriteCall \/ Flush \/ OpenReader \/ HeaderCall \/ ValidateCall

SpecWide == InitWide /\ [][NextWide]_vars

\* ------------------------------------------------------------------------
\* A Reader over a given file
\* ------------------------------------------------------------------------
\* Where the sub-chunks of a file sit: the data chunk last, an odd-sized
\* unknown chunk before it, or an unknown chunk after it.
FileLayouts == {"plain", "list", "trailing"}

ListChunkID == <<76, 73, 83, 84>>

\* a chunk as it is stored in a file: header, body and the padding byte
StoredChunk(c, body) == ChunkSerialize([c EXCEPT !.Body = body]) \o Zeros(Len(body) % 2)

\* a WAVE file holding the samples 'data' of type s: [bytes, dataStart, dataLen]
WaveFile(s, channelCount, frameRate, data, layout) ==
    LET stored(c) == StoredChunk(c, c.Body)
        listBytes == IF layout = "list"
                     THEN StoredChunk(Chunk(ListChunkID, 3, <<>>), <<9, 8, 7>>)
                     ELSE <<>>
        trailer == IF layout = "trailing"
                   THEN StoredChunk(Chunk(ListChunkID, 4, <<>>), <<11, 12, 13, 14>>)
                   ELSE <<>>
        file(body, before, audio) ==
            [bytes |-> RIFFChunkID \o uint32ToBytes(Len(body)) \o body,
             dataStart |-> 8 + Len(before) + 8,
             dataLen |-> Len(audio)]
        laidOut(before, audio) ==
            file(before \o StoredChunk(NewDataChunkHeader(Len(audio)), audio) \o trailer,
                 before, audio)
        withFormat(fmt) ==
            laidOut(WaveID \o stored(NewFormatChunk(fmt)) \o
                    (IF fmt.FormatCode # FormatCodePCM
                     THEN stored(NewFactChunk([SampleFrames |-> Len(data) \div channelCount]))
                     ELSE <<>>) \o listBytes,
                    EncodeAll(s, data))
    IN withFormat(NewFormatChunkData(channelCount, frameRate, s))

\* NewReader on a file of the family
InitFile ==
    /\ phase = "file"
    /\ sampleType = 0
    /\ formatChunkData = NilRec
    /\ factChunkData = NilRec
    /\ dataBytes = 0
    /\ baseWriter = [buf |-> <<>>, idx |-> 0]
    /\ \E s \in SampleTypes, frameRate \in FrameRates, n \in 0..MaxFileSamples,
          layout \in FileLayouts :
           LET opened(data, f) ==
                   /\ baseReader = [s |-> f.bytes, i |-> 0]
                   /\ hist = [InitHist EXCEPT !.samples = data, !.fileType = s,
                                              !.dataStart = f.dataStart,
                                              !.dataLen = f.dataLen]
               holding(data) == opened(data, WaveFile(s, 1, frameRate, data, layout))
           IN holding(SampleData(s, n, n % NumPatterns))
    /\ header = NilRec
    /\ dataReader = NilInt
    /\ buffer = NilRec
    /\ result = Result("NewReader", 0, Nil, 0, <<>>)

NextFile == HeaderCall \/ ReadCall

SpecReader == InitFile /\ [][NextFile]_vars

\* ------------------------------------------------------------------------
\* A Reader over a stream that need not be a well-formed file
\* ------------------------------------------------------------------------
MaxChunks == 3

JunkChunkID == <<74, 85, 78, 75>>

\* the sub-chunks a stream is put together from
ChunkKinds == {"fmtA", "fmtB", "fmtShort", "fact", "factShort", "cue", "list", "junk", "data"}

ChunkOfKind(kind) ==
    CASE kind = "fmtA" -> NewFormatChunk(NewFormatChunkData(1, 8000, SampleTypeUint8))
      [] kind = "fmtB" -> NewFormatChunk(NewFormatChunkData(1, 8000, SampleTypeFloat32))
      [] kind = "fmtShort" -> Chunk(FormatChunkID, 2, <<1, 0>>)
      [] kind = "fact" -> NewFactChunk([SampleFrames |-> 3])
      [] kind = "factShort" -> Chunk(FactChunkID, 2, <<3, 0>>)
      [] kind = "cue" -> Chunk(CueChunkID, 4, <<0, 0, 0, 0>>)
      [] kind = "list" -> Chunk(ListChunkID, 3, <<9, 8, 7>>)
      [] kind = "junk" -> Chunk(JunkChunkID, 2, <<5, 6>>)
      [] kind = "data" -> Chunk(DataChunkID, 3, <<1, 2, 3>>)

RECURSIVE StoredChunks(_)
StoredChunks(kinds) ==
    IF kinds = <<>> THEN <<>>
    ELSE StoredChunk(ChunkOfKind(Head(kinds)), ChunkOfKind(Head(kinds)).Body) \o
         StoredChunks(Tail(kinds))

\* the RIFF container around the sub-chunks, its size field counting them all
ScanFile(kinds) ==
    RIFFChunkID \o uint32ToBytes(4 + Len(StoredChunks(kinds))) \o WaveID \o
    StoredChunks(kinds)

ChunkSeqs == UNION {[1..n -> ChunkKinds] : n \in 0..MaxChunks}

\* the files that are also opened cut short or with a damaged root header
BaseSeqs == {<<"fmtA", "data">>, <<"fmtA", "list", "data">>, <<"fmtA", "data", "junk">>,
             <<"fmtB", "fact">>}

\* the positions (1-based) of the root header where one byte is replaced
DamagePositions == {1, 4, 9, 12}

Damaged(bytes, at) == [i \in 1..Len(bytes) |-> IF i = at THEN 88 ELSE bytes[i]]

\* NewReader on a stream: a file of any chunk sequence, or a base file cut
\* after 'cut' bytes with the byte at 'damage' replaced
InitScan ==
    /\ phase = "scan"
    /\ sampleType = 0
    /\ formatChunkData = NilRec
    /\ factChunkData = NilRec
    /\ dataBytes = 0
    /\ baseWriter = [buf |-> <<>>, idx |-> 0]
    /\ \E kinds \in ChunkSeqs, damage \in {0} \cup DamagePositions :
         \E cut \in 0..Len(ScanFile(kinds)) :
           /\ (damage # 0 \/ cut < Len(ScanFile(kinds))) => kinds \in BaseSeqs
           /\ baseReader = [s |-> Damaged(Slice(ScanFile(kinds), 0, cut), damage), i |-> 0]
           /\ hist = [InitHist EXCEPT !.kinds = kinds, !.cut = cut, !.damage = damage]
    /\ header = NilRec
    /\ dataReader = NilInt
    /\ buffer = NilRec
    /\ result = Result("NewReader", 0, Nil, 0, <<>>)

SpecScan == InitScan /\ [][NextFile]_vars

\* ------------------------------------------------------------------------
\* A Header value a caller holds, with some of its fields overwritten
\* ------------------------------------------------------------------------
\* a format code the library does not know
FormatCodeUnknown == 2

HeaderChannelCounts == {1, 3}

\* the choice that leaves a field as NewFormatChunkData set it
Keep == -2

CodeChoices == {Keep, FormatCodePCM, FormatCodeIEEEFloat, FormatCodeExtensible,
                FormatCodeUnknown}
SubFormatChoices == {Keep, NilInt, FormatCodePCM, FormatCodeIEEEFloat, FormatCodeExtensible,
                     FormatCodeUnknown}

\* the Header of a file of two frames of type s, with the chosen fields
\* overwritten: the format code, the byte rate and block align (raised by
\* off), the fact frame count ("none", "ok" or "bad") and the extension fields
HeaderFixture(s, channelCount, code, rateOff, alignOff, fact, validBits, mask, sub) ==
    LET overwritten(base) ==
            [base EXCEPT
               !.FormatCode = IF code = Keep THEN @ ELSE code,
               !.ByteRate = @ + rateOff,
               !.BlockAlign = @ + alignOff,
               !.ValidBitsPerSample = IF validBits THEN base.BitsPerSample ELSE @,
               !.ChannelMask = IF mask THEN 0 ELSE @,
               !.SubFormat = IF sub = Keep THEN @ ELSE sub]
        around(base) ==
            [ReportedFileSizeBytes |-> 0,
             FormatData |-> overwritten(base),
             FactData |-> IF fact = "none" THEN NilRec
                          ELSE [SampleFrames |-> IF fact = "ok" THEN 2 ELSE 3],
             CueData |-> NilRec,
             DataBytes |-> 2 * base.BlockAlign,
             AdditionalChunks |-> <<>>]
    IN around(NewFormatChunkData(channelCount, 8000, s))

\* which of the overwritten fields differ from the consistent header
CorruptedFields(code, rateOff, alignOff, fact, validBits, mask, sub) ==
    (IF code = FormatCodeUnknown THEN {"format code"} ELSE {}) \cup
    (IF rateOff # 0 THEN {"byte rate"} ELSE {}) \cup
    (IF alignOff # 0 THEN {"block align"} ELSE {}) \cup
    (IF fact = "bad" THEN {"sample frames"} ELSE {}) \cup
    (IF validBits THEN {"valid bits per sample"} ELSE {}) \cup
    (IF mask THEN {"channel mask"} ELSE {}) \cup
    (IF sub \notin {Keep, NilInt} THEN {"sub format"} ELSE {})

InitHeader ==
    /\ phase = "header"
    /\ sampleType = 0
    /\ formatChunkData = NilRec
    /\ factChunkData = NilRec
    /\ dataBytes = 0
    /\ baseWriter = [buf |-> <<>>, idx |-> 0]
    /\ baseReader = NilRec
    /\ dataReader = NilInt
    /\ buffer = NilRec
    /\ result = Result("Header", 0, Nil, 0, <<>>)
    /\ \E s \in SampleTypes, channelCount \in HeaderChannelCounts,
          code \in CodeChoices, rateOff \in {0, 1}, alignOff \in {0, 1},
          fact \in {"none", "ok", "bad"}, validBits \in BOOLEAN, mask \in BOOLEAN,
          sub \in SubFormatChoices :
           LET extensible == NewFormatChunkData(channelCount, 8000, s).FormatCode =
                                 FormatCodeExtensible
           IN \* an extension field is only set where the base has none
              /\ extensible => (~validBits /\ ~mask)
              /\ ~extensible => sub # NilInt
              /\ header = HeaderFixture(s, channelCount, code, rateOff, alignOff, fact,
                                        validBits, mask, sub)
              /\ hist = [InitHist EXCEPT
                            !.fileType = s,
                            !.corrupted = CorruptedFields(code, rateOff, alignOff, fact,
                                                          validBits, mask, sub),
                            !.plain = /\ code \in {Keep, FormatCodeUnknown}
                                      /\ extensible => sub = Keep]

\* Header.SampleType on the header
SampleTypeCall ==
    /\ phase = "header"
    /\ header # NilRec
    /\ result' = Result("SampleType", HeaderSampleType(header).val,
                        HeaderSampleType(header).err, 0, <<>>)
    /\ UNCHANGED <<phase, writerVars, baseReader, header, dataReader, buffer, hist>>

NextHeader == ValidateCall \/ SampleTypeCall

SpecHeader == InitHeader /\ [][NextHeader]_vars

\* ------------------------------------------------------------------------
\* WritePackedInt24 and ReadPackedInt24 called on their own
\* ------------------------------------------------------------------------
MaxPackLen == 3

\* int32 values inside the 24-bit range
Int24Values == {-8388608, -66052, -1, 0, 66051, 8388607}

\* a caller holding the values xs and an empty bytes.Writer
InitPack ==
    /\ phase = "pack"
    /\ sampleType = 0
    /\ formatChunkData = NilRec
    /\ factChunkData = NilRec
    /\ dataBytes = 0
    /\ baseWriter = [buf |-> <<>>, idx |-> 0]
    /\ baseReader = NilRec
    /\ header = NilRec
    /\ dataReader = NilInt
    /\ buffer = NilRec
    /\ result = Result("start", 0, Nil, 0, <<>>)
    /\ \E n \in 0..MaxPackLen : \E xs \in [1..n -> Int24Values] :
           hist = [InitHist EXCEPT !.samples = xs]

\* WritePackedInt24(w, xs) on the empty bytes.Writer
PackCall ==
    /\ phase = "pack"
    /\ result.op = "start"
    /\ baseWriter' = WriterWrite(baseWriter, WritePackedInt24(hist.samples))
    /\ result' = Result("WritePackedInt24", SampleTypeInt24, Nil,
                        Len(WritePackedInt24(hist.samples)), <<>>)
    /\ UNCHANGED <<phase, sampleType, formatChunkData, factChunkData, dataBytes,
                   readerVars, hist>>

\* ReadPackedInt24 on the first m of the bytes written
UnpackCall ==
    /\ phase = "pack"
    /\ result.op # "start"
    /\ \E m \in 0..Len(baseWriter.buf) :
         LET unpacked(rd) ==
                 /\ result' = Result("ReadPackedInt24", SampleTypeInt24, rd.err,
                                     Len(rd.val), rd.val)
                 /\ hist' = [hist EXCEPT !.k = m]
         IN unpacked(ReadPackedInt24(Slice(baseWriter.buf, 0, m)))
    /\ UNCHANGED <<phase, writerVars, baseReader, header, dataReader, buffer>>

NextPack == PackCall \/ UnpackCall

SpecPack == InitPack /\ [][NextPack]_vars

\* ------------------------------------------------------------------------
\* FormatChunkData.Serialize and DeserializeFormatChunk called on their own
\* ------------------------------------------------------------------------
\* the extension sizes written over the bytes 16..17 of a payload
ExtensionSizes == {Keep, 0, 21, 22, 40}

\* the channel counts of the format chunks a caller holds: none, mono, three
\* and the largest 16-bit count
FormatChannelCounts == HeaderChannelCounts \cup {0, 65535}

\* a caller holding a FormatChunkData: one NewFormatChunkData built, with
\* the format code overwritten and extension fields removed as chosen
InitFormat ==
    /\ phase = "format"
    /\ sampleType = 0
    /\ factChunkData = NilRec
    /\ dataBytes = 0
    /\ baseWriter = [buf |-> <<>>, idx |-> 0]
    /\ baseReader = NilRec
    /\ header = NilRec
    /\ dataReader = NilInt
    /\ buffer = NilRec
    /\ result = Result("start", 0, Nil, 0, <<>>)
    /\ hist = InitHist
    /\ \E s \in SampleTypes, channelCount \in FormatChannelCounts, code \in CodeChoices,
          noValidBits \in BOOLEAN, noMask \in BOOLEAN, noSub \in BOOLEAN :
           LET changed(base) ==
                   [base EXCEPT
                      !.FormatCode = IF code = Keep THEN @ ELSE code,
                      !.ValidBitsPerSample = IF noValidBits THEN NilInt ELSE @,
                      !.ChannelMask = IF noMask THEN NilInt ELSE @,
                      !.SubFormat = IF noSub THEN NilInt ELSE @]
           IN formatChunkData = changed(NewFormatChunkData(channelCount, 8000, s))

\* c.Serialize(); the bytes returned are kept in the caller's buffer
SerializeCall ==
    /\ phase = "format"
    /\ result.op = "start"
    /\ LET returned(r) ==
               /\ result' = Result("Serialize", 0, r.err, Len(r.bytes), r.bytes)
               /\ baseWriter' = [buf |-> r.bytes, idx |-> Len(r.bytes)]
       IN returned(FormatChunkDataSerialize(formatChunkData))
    /\ UNCHANGED <<phase, sampleType, formatChunkData, factChunkData, dataBytes,
                   readerVars, hist>>

\* the first m of the serialized bytes, the extension size overwritten
FormatPayload(bytes, m, ext) ==
    [i \in 1..m |-> IF ext # Keep /\ m >= 18 /\ i \in {17, 18}
                    THEN uint16ToBytes(ext)[i - 16]
                    ELSE bytes[i]]

\* DeserializeFormatChunk on a payload of m bytes (len = cap = m)
DeserializeCall ==
    /\ phase = "format"
    /\ result.op # "start"
    /\ \E m \in 0..Len(baseWriter.buf), ext \in ExtensionSizes :
         LET returned(d) ==
                 /\ result' = Result("Deserialize", 0, d.err, m, d.val)
                 /\ hist' = [hist EXCEPT !.cut = m, !.damage = ext]
             onPayload(p) ==
                 /\ baseReader' = [s |-> p, i |-> 0]
                 /\ returned(DeserializeFormatChunk(p))
         IN onPayload(FormatPayload(baseWriter.buf, m, ext))
    /\ UNCHANGED <<phase, writerVars, header, dataReader, buffer>>

NextFormat == SerializeCall \/ DeserializeCall

SpecFormat == InitFormat /\ [][NextFormat]_vars

\* ------------------------------------------------------------------------
\* The cue chunk deserializer called on its own
\* ------------------------------------------------------------------------
MaxCuePoints == 2

\* the two cue points of the tests: [ID, BlockStart, SampleOffset]
CuePointChoices == {<<1, 42, 14>>, <<2, 88, 64>>}

\* the 24 bytes of one cue point, as the tests lay them out
CuePointBytes(c) ==
    uint32ToBytes(c[1]) \o uint32ToBytes(0) \o DataChunkID \o
    uint32ToBytes(0) \o uint32ToBytes(c[2]) \o uint32ToBytes(c[3])

RECURSIVE CuePayload(_)
CuePayload(points) ==
    IF points = <<>> THEN <<>>
    ELSE CuePointBytes(Head(points)) \o CuePayload(Tail(points))

\* a payload: a declared count, some cue points, cut at any length
InitCue ==
    /\ phase = "cue"
    /\ sampleType = 0
    /\ formatChunkData = NilRec
    /\ factChunkData = NilRec
    /\ dataBytes = 0
    /\ baseWriter = [buf |-> <<>>, idx |-> 0]
    /\ header = NilRec
    /\ dataReader = NilInt
    /\ buffer = NilRec
    /\ result = Result("start", 0, Nil, 0, <<>>)
    /\ hist = InitHist
    /\ \E numCuePoints \in 0..MaxCuePoints, present \in 0..MaxCuePoints :
         \E points \in [1..present -> CuePointChoices] :
           LET cutAt(payload) ==
                   \E m \in 0..Len(payload) :
                      baseReader = [s |-> Slice(payload, 0, m), i |-> 0]
           IN cutAt(uint32ToBytes(numCuePoints) \o CuePayload(points))

\* DeserializeCueChunk(payload), len = cap
DeserializeCueCall ==
    /\ phase = "cue"
    /\ result.op = "start"
    /\ LET returned(d) ==
               result' = Result("DeserializeCueChunk", 0, d.err,
                                IF d.err = Nil THEN Len(d.val.CuePoints) ELSE 0, d.val)
       IN returned(DeserializeCueChunk(baseReader.s))
    /\ UNCHANGED <<phase, writerVars, baseReader, header, dataReader, buffer, hist>>

NextCue == DeserializeCueCall

SpecCue == InitCue /\ [][NextCue]_vars

\* ------------------------------------------------------------------------
\* A Reader over a stream whose format chunk holds arbitrary field values
\* ------------------------------------------------------------------------
ParsedChannelCounts == {0, 1, 2}
ParsedBitsPerSample == {4, 8, 16}
ParsedFacts == {NilInt, 0, 3}
ParsedDataLens == {0, 3, 4}

\* a stream with a 'fmt ' chunk of the given fields, a 'fact' chunk unless
\* frames is NilInt, and a 'data' chunk of n bytes
ParsedFile(channelCount, bits, align, frames, n) ==
    LET stored(c) == StoredChunk(c, c.Body)
        fmt == [FormatCode |-> FormatCodePCM,
                ChannelCount |-> channelCount,
                FrameRate |-> 8000,
                ByteRate |-> 8000 * (bits \div 8) * channelCount,
                BlockAlign |-> align,
                BitsPerSample |-> bits,
                ValidBitsPerSample |-> NilInt,
                ChannelMask |-> NilInt,
                SubFormat |-> NilInt]
        file(body) == RIFFChunkID \o uint32ToBytes(Len(body)) \o body
    IN file(WaveID \o stored(NewFormatChunk(fmt)) \o
            (IF frames # NilInt THEN stored(NewFactChunk([SampleFrames |-> frames]))
             ELSE <<>>) \o
            StoredChunk(NewDataChunkHeader(n), [i \in 1..n |-> i]))

\* NewReader on such a stream
InitParsed ==
    /\ phase = "parsed"
    /\ sampleType = 0
    /\ formatChunkData = NilRec
    /\ factChunkData = NilRec
    /\ dataBytes = 0
    /\ baseWriter = [buf |-> <<>>, idx |-> 0]
    /\ \E channelCount \in ParsedChannelCounts, bits \in ParsedBitsPerSample,
          frames \in ParsedFacts, n \in ParsedDataLens :
         \E align \in {0, (bits \div 8) * channelCount} :
            baseReader = [s |-> ParsedFile(channelCount, bits, align, frames, n), i |-> 0]
    /\ header = NilRec
    /\ dataReader = NilInt
    /\ buffer = NilRec
    /\ result = Result("NewReader", 0, Nil, 0, <<>>)
    /\ hist = InitHist

\* Header.FrameCount on the header the Reader holds
FrameCountCall ==
    /\ phase = "parsed"
    /\ header # NilRec
    /\ result' = Result("FrameCount", 0, FrameCount(header).err, FrameCount(header).val, <<>>)
    /\ UNCHANGED <<phase, writerVars, baseReader, header, dataReader, buffer, hist>>

\* Header.SampleCount on the header the Reader holds
SampleCountCall ==
    /\ phase = "parsed"
    /\ header # NilRec
    /\ result' = Result("SampleCount", 0, SampleCount(header).err, SampleCount(header).val,
                        <<>>)
    /\ UNCHANGED <<phase, writerVars, baseReader, header, dataReader, buffer, hist>>

NextParsed == HeaderCall \/ ValidateCall \/ FrameCountCall \/ SampleCountCall

SpecParsed == InitParsed /\ [][NextParsed]_vars

\* ------------------------------------------------------------------------
\* ReadRIFFChunk, one loop iteration per step
\* ------------------------------------------------------------------------
\* the first 12 bytes: "RIFF", the size, "WAVE": [err, r, fileSize]
readRIFFHeader(r) ==
    LET fail(rd, err) == [err |-> err, r |-> rd.r, fileSize |-> 0]
        afterWave(wave, fileSize) ==
            IF wave.err # Nil THEN fail(wave, wave.err)
            ELSE IF tagMismatch(wave.bytes, WaveID)
            THEN fail(wave, "ErrRIFFChunkCorruptedHeader")
            ELSE [err |-> Nil, r |-> wave.r, fileSize |-> fileSize]
        afterSize(sz) ==
            IF sz.err # Nil THEN fail(sz, sz.err)
            ELSE afterWave(ReadFull(sz.r, 4), readUint32(sz.bytes) + 8)
        afterRIFF(riff) ==
            IF riff.err # Nil THEN fail(riff, riff.err)
            ELSE IF tagMismatch(riff.bytes, RIFFChunkID)
            THEN fail(riff, "ErrRIFFChunkCorruptedHeader")
            ELSE afterSize(ReadFull(riff.r, 4))
    IN afterRIFF(ReadFull(r, 4))

\* a record of the header's offset as the start of the data
dataBodyOffset_OfHeader(offset) == offset - 8

\* dataChunkOffset = currentOffset, taken after the 8 header bytes were counted
dataBodyOffset(offset) == offset

\* a seek that goes back to the chunk's own header
dataSeekTarget_Back(offset, chunkSize) == offset - 8

\* the target of the seek over a data chunk:
\* currentOffset + int64(chunkSize) + paddingByteCount
dataSeekTarget(offset, chunkSize) == offset + chunkSize + (chunkSize % 2)

\* the chunks of the streams scanned step by step: two data chunks of
\* different sizes among them
RiffKinds == {"fmtA", "list", "junk", "data", "dataB"}

RiffChunk(kind) ==
    IF kind = "dataB" THEN Chunk(DataChunkID, 2, <<7, 8>>) ELSE ChunkOfKind(kind)

RECURSIVE RiffStored(_)
RiffStored(kinds) ==
    IF kinds = <<>> THEN <<>>
    ELSE StoredChunk(RiffChunk(Head(kinds)), RiffChunk(Head(kinds)).Body) \o
         RiffStored(Tail(kinds))

\* what is added to the true size in the RIFF size field
DeclaredSizeOffsets == {-12, -1, 0, 8}

\* the container around the chunks, its size field off by sizeOff
RiffFile(kinds, sizeOff) ==
    RIFFChunkID \o uint32ToBytes(4 + Len(RiffStored(kinds)) + sizeOff) \o WaveID \o
    RiffStored(kinds)

RiffSeqs == UNION {[1..n -> RiffKinds] : n \in 0..MaxChunks}

\* the streams that are also scanned cut short
RiffBaseSeqs == {<<"fmtA", "data">>, <<"data", "list">>, <<"list", "dataB", "data">>}

\* a reader at offset 0 of a stream
InitRiff ==
    /\ phase = "riff"
    /\ sampleType = 0
    /\ formatChunkData = NilRec
    /\ factChunkData = NilRec
    /\ dataBytes = 0
    /\ baseWriter = [buf |-> <<>>, idx |-> 0]
    /\ \E kinds \in RiffSeqs, sizeOff \in DeclaredSizeOffsets :
         \E cut \in 0..Len(RiffFile(kinds, sizeOff)) :
           /\ 4 + Len(RiffStored(kinds)) + sizeOff >= 0
           /\ (cut < Len(RiffFile(kinds, sizeOff))) => kinds \in RiffBaseSeqs
           /\ baseReader = [s |-> Slice(RiffFile(kinds, sizeOff), 0, cut), i |-> 0]
           /\ hist = [InitHist EXCEPT !.kinds = kinds, !.cut = cut, !.damage = sizeOff]
    /\ header = NilRec
    /\ dataReader = NilInt
    /\ buffer = NilRec
    /\ result = Result("NewReader", 0, Nil, 0, <<>>)

\* the locals of a running ReadRIFFChunk call
ScanLocals(fileSize, currentOffset, dataChunkOffset, chunks) ==
    [fileSize |-> fileSize, currentOffset |-> currentOffset,
     dataChunkOffset |-> dataChunkOffset, chunks |-> chunks]

\* ReadRIFFChunk up to the loop
RiffBegin ==
    /\ phase = "riff"
    /\ result.op = "NewReader"
    /\ \E h \in {readRIFFHeader(baseReader)} :
         /\ baseReader' = h.r
         /\ result' = IF h.err # Nil
                      THEN Result("ReadRIFFChunk", 0, h.err, 0, <<>>)
                      ELSE Result("scan", 0, Nil, 0, ScanLocals(h.fileSize, 12, 0, <<>>))
    /\ UNCHANGED <<phase, writerVars, header, dataReader, buffer, hist>>

\* the loop is left with an error
IterationFails(r, err) ==
    /\ baseReader' = r
    /\ result' = Result("ReadRIFFChunk", 0, err, 0, <<>>)

\* the chunk is appended and the loop goes on
IterationEnds(r, currentOffset, dataChunkOffset, chunk) ==
    /\ baseReader' = r
    /\ result' = Result("scan", 0, Nil, 0,
                        ScanLocals(result.data.fileSize, currentOffset, dataChunkOffset,
                                   result.data.chunks \o <<chunk>>))

\* the body of a chunk other than 'data' is read, and its padding byte
ReadBody(r, offset, chunkID, chunkSize) ==
    \E body \in {ReadFull(r, chunkSize)} :
      IF body.err # Nil THEN IterationFails(body.r, body.err)
      ELSE IF chunkSize % 2 = 0
      THEN IterationEnds(body.r, offset + chunkSize, result.data.dataChunkOffset,
                         Chunk(chunkID, chunkSize, body.bytes))
      ELSE \E pad \in {BytesRead(body.r, 1)} :
             IF pad.err # Nil THEN IterationFails(pad.r, pad.err)
             ELSE IterationEnds(pad.r, offset + chunkSize + 1, result.data.dataChunkOffset,
                                Chunk(chunkID, chunkSize, body.bytes))

\* the body of the 'data' chunk is skipped with a seek
SkipData(r, offset, chunkID, chunkSize) ==
    \E sk \in {ReaderSeek(r, dataSeekTarget(offset, chunkSize))} :
      IF sk.err # Nil THEN IterationFails(sk.r, sk.err)
      ELSE IterationEnds(sk.r, sk.r.i, dataBodyOffset(offset), Chunk(chunkID, chunkSize, <<>>))

\* one iteration of the loop
RiffIterate ==
    /\ phase = "riff"
    /\ result.op = "scan"
    /\ result.data.currentOffset < result.data.fileSize
    /\ \E idRd \in {ReadFull(baseReader, 4)} :
         IF idRd.err # Nil THEN IterationFails(idRd.r, idRd.err)
         ELSE \E szRd \in {ReadFull(idRd.r, 4)} :
                IF szRd.err # Nil THEN IterationFails(szRd.r, szRd.err)
                ELSE IF idRd.bytes # DataChunkID
                THEN ReadBody(szRd.r, result.data.currentOffset + 8, idRd.bytes,
                              readUint32(szRd.bytes))
                ELSE SkipData(szRd.r, result.data.currentOffset + 8, idRd.bytes,
                              readUint32(szRd.bytes))
    /\ hist' = [hist EXCEPT !.scans = @ + 1]
    /\ UNCHANGED <<phase, writerVars, header, dataReader, buffer>>

\* the break out of the loop, the seek to the data chunk and the return
RiffEnd ==
    /\ phase = "riff"
    /\ result.op = "scan"
    /\ result.data.currentOffset >= result.data.fileSize
    /\ \E sk \in {ReaderSeek(baseReader, result.data.dataChunkOffset)} :
         /\ baseReader' = sk.r
         /\ result' = IF sk.err # Nil
                      THEN Result("ReadRIFFChunk", 0, sk.err, 0, <<>>)
                      ELSE Result("ReadRIFFChunk", 0, Nil, result.data.fileSize,
                                  result.data.chunks)
    /\ UNCHANGED <<phase, writerVars, header, dataReader, buffer, hist>>

NextRiff == RiffBegin \/ RiffIterate \/ RiffEnd

SpecRiff == InitRiff /\ [][NextRiff]_vars

\* the call runs on: a caller waits for ReadRIFFChunk to return
SpecRiffLive == SpecRiff /\ WF_vars(NextRiff)

\* ------------------------------------------------------------------------
\* A Reader over a stream with any number of data chunks
\* ------------------------------------------------------------------------
\* NewReader on a stream of the step-by-step family, whole and with an exact
\* size field; its format chunk, if any, is the Uint8 one
InitMulti ==
    /\ phase = "scan"
    /\ sampleType = 0
    /\ formatChunkData = NilRec
    /\ factChunkData = NilRec
    /\ dataBytes = 0
    /\ baseWriter = [buf |-> <<>>, idx |-> 0]
    /\ \E kinds \in RiffSeqs :
         /\ baseReader = [s |-> RiffFile(kinds, 0), i |-> 0]
         /\ hist = [InitHist EXCEPT !.kinds = kinds, !.cut = Len(RiffFile(kinds, 0)),
                                    !.fileType = SampleTypeUint8]
    /\ header = NilRec
    /\ dataReader = NilInt
    /\ buffer = NilRec
    /\ result = Result("NewReader", 0, Nil, 0, <<>>)

SpecMulti == InitMulti /\ [][NextFile]_vars

\* ------------------------------------------------------------------------
\* A bytes.Writer used on its own
\* ------------------------------------------------------------------------
MaxBytesCalls == 3
MaxWriteLen == 2
MaxSeekOffset == 2

\* the byte values written
WriteValues == {1, 2}
WritePayloads == UNION {[1..n -> WriteValues] : n \in 0..MaxWriteLen}
SeekWhences == {"SeekStart", "SeekCurrent", "SeekEnd", "SeekOther"}

\* w := Writer{}
InitBytes ==
    /\ phase = "bytes"
    /\ sampleType = 0
    /\ formatChunkData = NilRec
    /\ factChunkData = NilRec
    /\ dataBytes = 0
    /\ baseWriter = [buf |-> <<>>, idx |-> 0]
    /\ baseReader = NilRec
    /\ header = NilRec
    /\ dataReader = NilInt
    /\ buffer = NilRec
    /\ result = Result("Writer", 0, Nil, 0, <<>>)
    /\ hist = InitHist

\* w.Write(p)
BytesWrite ==
    /\ phase = "bytes"
    /\ hist.appends < MaxBytesCalls
    /\ \E p \in WritePayloads :
         /\ baseWriter' = WriterWrite(baseWriter, p)
         /\ result' = Result("Write", 0, Nil, Len(p), p)
    /\ hist' = [hist EXCEPT !.appends = @ + 1]
    /\ UNCHANGED <<phase, sampleType, formatChunkData, factChunkData, dataBytes, readerVars>>

\* w.Seek(offset, whence); the result holds the index returned and the
\* arguments <<offset, whence>>
BytesSeek ==
    /\ phase = "bytes"
    /\ hist.appends < MaxBytesCalls
    /\ \E offset \in -MaxSeekOffset..MaxSeekOffset, whence \in SeekWhences :
         \E sk \in {WriterSeek(baseWriter, offset, whence)} :
            /\ baseWriter' = sk.w
            /\ result' = Result("Seek", whence, sk.err,
                                IF sk.err = Nil THEN sk.w.idx ELSE 0, <<offset>>)
    /\ hist' = [hist EXCEPT !.appends = @ + 1]
    /\ UNCHANGED <<phase, sampleType, formatChunkData, factChunkData, dataBytes, readerVars>>

NextBytes == BytesWrite \/ BytesSeek

SpecBytes == InitBytes /\ [][NextBytes]_vars

\* ------------------------------------------------------------------------
\* What the claims speak about
\* ------------------------------------------------------------------------
\* the bytes of the sink
Stream == baseWriter.buf

\* P: the preamble length a Writer of this shape has
PreambleLen ==
    12 + (8 + FormatChunkSize(formatChunkData)) +
    (IF factChunkData # NilRec THEN 12 ELSE 0) + 8

\* the sum over all successful appends of elementCount * sampleWidth
AppendedBytes == Len(hist.samples) * Size(sampleType)

\* the header fields as they are stored in the sink
RIFFSizeField == readUint32(Slice(Stream, 4, 8))
DataSizeField == readUint32(Slice(Stream, PreambleLen - 4, PreambleLen))
FactField ==
    LET at == 12 + 8 + FormatChunkSize(formatChunkData) + 8
    IN readUint32(Slice(Stream, at, at + 4))

\* the last call was a Flush that returned nil
JustFlushed == phase = "write" /\ result.op = "Flush" /\ result.err = Nil

\* the first matching ReadT call on the output of a Writer flushed once was
\* made with a buffer of N elements, N the number of samples appended
ReadAllOnce ==
    /\ phase = "read"
    /\ hist.flushes = 1
    /\ hist.reads = 1
    /\ result.op = "Read"
    /\ hist.k = Len(hist.samples)

\* ------------------------------------------------------------------------
\* C1 (as stated): after appends of N samples of type T and one Flush, one
\* ReadT with a buffer of N elements returns (N, nil) and the samples that
\* were appended, and Header().SampleType() is T.
\* ------------------------------------------------------------------------
C1_RoundTrip_AsStated ==
    ReadAllOnce =>
        /\ result.n = Len(hist.samples)
        /\ result.err = Nil
        /\ result.data = hist.samples
        /\ HeaderSampleType(header) = [err |-> Nil, val |-> sampleType]

\* C1 (amended): the same, except that with N = 0 and T = Uint8 the read
\* returns (0, io.EOF) instead of (0, nil).
C1_RoundTrip ==
    ReadAllOnce =>
        /\ result.n = Len(hist.samples)
        /\ result.err = IF hist.samples = <<>> /\ sampleType = SampleTypeUint8
                        THEN "EOF" ELSE Nil
        /\ result.data = hist.samples
        /\ HeaderSampleType(header) = [err |-> Nil, val |-> sampleType]

C1_Witness ==
    /\ ReadAllOnce
    /\ sampleType = SampleTypeInt24
    /\ formatChunkData.ChannelCount = 2
    /\ Len(hist.samples) = 4
    /\ result.data = hist.samples
    /\ result.data[1] < 0

\* C2: after any successful appends and one successful Flush the stream is
\* P + dataBytes + (dataBytes mod 2) bytes long, the RIFF size field is the
\* stream length - 8 and the data-chunk size field is dataBytes.
C2_StreamLayout ==
    (JustFlushed /\ hist.okFlushes = 1) =>
        /\ Len(Stream) = PreambleLen + AppendedBytes + (AppendedBytes % 2)
        /\ RIFFSizeField = Len(Stream) - 8
        /\ DataSizeField = AppendedBytes

C2_Witness ==
    /\ JustFlushed
    /\ hist.okFlushes = 1
    /\ hist.appends = 2
    /\ AppendedBytes % 2 = 1
    /\ RIFFSizeField = Len(Stream) - 8

C4_Padding ==
    [][(hist.okFlushes = 0 /\ hist'.okFlushes = 1) =>
         /\ Slice(Stream', PreambleLen, PreambleLen + AppendedBytes)
                = EncodeAll(sampleType, hist.samples)
         /\ DataSizeField' = AppendedBytes
         /\ IF AppendedBytes % 2 = 1
            THEN /\ Len(Stream) = PreambleLen + AppendedBytes
                 /\ Len(Stream') = Len(Stream) + 1
                 /\ Stream'[PreambleLen + AppendedBytes + 1] = 0
            ELSE Len(Stream') = PreambleLen + AppendedBytes]_vars

C4_Witness ==
    /\ JustFlushed
    /\ hist.okFlushes = 1
    /\ AppendedBytes % 2 = 1
    /\ Len(Stream) = PreambleLen + AppendedBytes + 1
    /\ Stream[Len(Stream)] = 0
    /\ Stream[Len(Stream) - 1] # 0

\* C5: after every successful Flush of a Writer with a fact chunk, the frame
\* count in the Writer's fact chunk and the one stored in the stream equal
\* dataBytes / blockAlign.
C5_FactFrames ==
    (JustFlushed /\ factChunkData # NilRec) =>
        /\ factChunkData.SampleFrames = AppendedBytes \div formatChunkData.BlockAlign
        /\ FactField = AppendedBytes \div formatChunkData.BlockAlign

C5_Witness ==
    /\ JustFlushed
    /\ factChunkData # NilRec
    /\ hist.okFlushes = 2
    /\ formatChunkData.ChannelCount = 2
    /\ FactField = 2

\* C6: every preamble a Writer serializes, on the first append and on every
\* Flush, has the length 12 + (8 + format body) + (12 with a fact chunk) + 8.
C6_PreambleLength == hist.preambleLens \subseteq {PreambleLen}

C6_Witness ==
    /\ hist.preambles >= 3
    /\ hist.okFlushes = 2
    /\ factChunkData # NilRec
    /\ dataBytes > 0
    /\ hist.preambleLens = {PreambleLen}

\* C7: a WriteT call of a type other than the Writer's returns the matching
\* ErrWriterExpectedT and changes neither the stream, its position nor the
\* running byte count.
C7_TypeMismatch ==
    [][(/\ phase = "write"
        /\ hist'.appends + hist'.badCalls = hist.appends + hist.badCalls + 1
        /\ result'.type # sampleType) =>
         /\ result'.op = "Write"
         /\ result'.err = ErrWriterExpected(result'.type)
         /\ baseWriter' = baseWriter
         /\ dataBytes' = dataBytes
         /\ factChunkData' = factChunkData]_vars

C7_Witness ==
    /\ phase = "write"
    /\ hist.badCalls = 1
    /\ hist.appends = 1
    /\ dataBytes > 0
    /\ result.op = "Write"
    /\ result.type = SampleTypeInt24
    /\ sampleType = SampleTypeInt16
    /\ result.err = "ErrWriterExpectedInt24"

\* C14: a successful Flush on a Writer to which no sample was appended leaves
\* exactly the preamble in the stream: P bytes, a data size field of 0 and a
\* RIFF size field of P - 8, with P = 44 for PCM, 58 for IEEE float and 80 for
\* Extensible.
C14_EmptyFlush ==
    (JustFlushed /\ hist.samples = <<>>) =>
        \E P \in {44, 58, 80} :
            /\ (P = 44) <=> (formatChunkData.FormatCode = 1)
            /\ (P = 58) <=> (formatChunkData.FormatCode = 3)
            /\ (P = 80) <=> (formatChunkData.FormatCode = 65534)
            /\ Len(Stream) = P
            /\ readUint32(Slice(Stream, P - 4, P)) = 0
            /\ readUint32(Slice(Stream, 4, 8)) = P - 8

\* an empty IEEE-float file, flushed after an append of no sample
C14_Witness ==
    /\ JustFlushed
    /\ hist.samples = <<>>
    /\ hist.appends = 1
    /\ formatChunkData.FormatCode = FormatCodeIEEEFloat
    /\ Len(Stream) = 58

\* ------------------------------------------------------------------------
\* Reading a given file (SpecReader)
\* ------------------------------------------------------------------------
\* the samples stored in a run of data-chunk bytes
StoredSamples(s, bytes) ==
    IF s = SampleTypeInt24
    THEN ReadPackedInt24Into(Slice(bytes, 0, Len(bytes) - (Len(bytes) % 3)))
    ELSE [j \in 1..(Len(bytes) \div Size(s)) |->
            DecodeSample(s, Slice(bytes, (j - 1) * Size(s), j * Size(s)))]

\* what the data chunk of the file holds, by the file's construction
DataRegion == Slice(baseReader.s, hist.dataStart, hist.dataStart + hist.dataLen)

IsPrefix(a, b) == Len(a) <= Len(b) /\ a = SubSeq(b, 1, Len(a))

\* a step that is a call of Reader.Header
HeaderStep == hist'.headerCalls = hist.headerCalls + 1

\* a step that is a call of one of the ReadT methods
ReadStep == hist'.reads + hist'.badReads = hist.reads + hist.badReads + 1

\* a ReadT call of the file's type took place in this step
MatchingRead == phase = "file" /\ hist'.reads = hist.reads + 1

\* C8: reads are bounded by the declared length of the data chunk: the
\* stream position never passes the end of the declared data, the samples
\* returned in total number at most DataBytes / width, and every returned
\* block is the decoding of the data-chunk bytes the call consumed, so the
\* padding byte and the chunks after the data chunk are never returned.
C8_BoundedReads ==
    (phase = "file" /\ header # NilRec) =>
        LET w == Size(hist.fileType)
            consumed == baseReader.i - hist.dataStart
        IN /\ header.DataBytes = hist.dataLen
           /\ consumed >= 0
           /\ consumed <= header.DataBytes
           /\ Len(hist.got) <= header.DataBytes \div w
           /\ (result.op = "Read" /\ result.type = hist.fileType /\ result.err # "panic") =>
                 /\ result.n * w <= consumed
                 /\ result.data = StoredSamples(hist.fileType,
                                     Slice(baseReader.s, baseReader.i - result.n * w,
                                           baseReader.i))

C8_Witness ==
    /\ phase = "file"
    /\ header # NilRec
    /\ hist.dataLen % 2 = 1
    /\ Len(baseReader.s) > hist.dataStart + hist.dataLen + 1
    /\ baseReader.i = hist.dataStart + hist.dataLen
    /\ result.op = "Read"
    /\ result.err = "EOF"
    /\ hist.reads >= 2
    /\ Len(hist.got) >= 1
    /\ Len(hist.got) = hist.dataLen \div Size(hist.fileType)

\* C9: a ReadT call of the file's type with a buffer of k >= 1 elements
\* returns (k, nil) when at least k elements remain, (count, ErrUnexpectedEOF)
\* when 1 <= count < k elements remain, and (0, EOF) when none remain.
C9_ReadOutcomes ==
    [][MatchingRead =>
         LET k == hist'.k
             left == IF header = NilRec THEN hist.dataLen ELSE dataReader
             remain == left \div Size(hist.fileType)
         IN k >= 1 =>
              IF remain >= k
              THEN result'.n = k /\ result'.err = Nil
              ELSE IF remain >= 1
              THEN result'.n = remain /\ result'.err = "ErrUnexpectedEOF"
              ELSE result'.n = 0 /\ result'.err = "EOF"]_vars

\* C10: whatever buffer lengths successive ReadT calls on a well-formed file
\* use, every call returns normally and the returned samples, concatenated,
\* are in order those a single read of SampleCount() elements returns.
C10_Streaming ==
    (phase = "file" /\ result.op = "Read" /\ result.type = hist.fileType) =>
        /\ result.err # "panic"
        /\ IsPrefix(hist.got, StoredSamples(hist.fileType, DataRegion))
        /\ (result.err = "EOF") => hist.got = StoredSamples(hist.fileType, DataRegion)

\* C12: a ReadT call of another type than the one the header resolves to
\* returns count 0 and the ErrReaderUnexpectedT of its own type, stores no
\* sample, leaves the scratch buffer alone and consumes no byte of the data
\* chunk (the stream stays where the header scan or the previous call left
\* it); the first call of the matching method after it returns the samples
\* from the start of the data chunk.
C12_Mismatch ==
    [][/\ (phase = "file" /\ ReadStep /\ result'.type # hist.fileType) =>
             /\ result'.n = 0
             /\ result'.data = <<>>
             /\ <<result'.type, result'.err>> \in
                    {<<SampleTypeUint8, "ErrReaderUnexpectedUint8">>,
                     <<SampleTypeInt16, "ErrReaderUnexpectedInt16">>,
                     <<SampleTypeInt24, "ErrReaderUnexpectedInt24">>,
                     <<SampleTypeInt32, "ErrReaderUnexpectedInt32">>,
                     <<SampleTypeFloat32, "ErrReaderUnexpectedFloat32">>,
                     <<SampleTypeFloat64, "ErrReaderUnexpectedFloat64">>}
             /\ buffer' = buffer
             /\ hist'.got = hist.got
             /\ baseReader'.i = IF header = NilRec THEN hist.dataStart ELSE baseReader.i
             /\ dataReader' = IF header = NilRec THEN hist.dataLen ELSE dataReader
       /\ (MatchingRead /\ hist.reads = 0 /\ hist.badReads >= 1) =>
             /\ result'.n = Min(hist'.k, Len(StoredSamples(hist.fileType, DataRegion)))
             /\ result'.data = SubSeq(StoredSamples(hist.fileType, DataRegion), 1, result'.n)]_vars

\* a mismatched call that triggered the header scan, then a matching call
\* that returned samples
C12_Witness ==
    /\ phase = "file"
    /\ hist.headerCalls = 0
    /\ hist.badReads = 1
    /\ hist.reads = 1
    /\ result.op = "Read"
    /\ result.type = hist.fileType
    /\ result.err = Nil
    /\ result.n >= 2
    /\ hist.got = result.data

\* ------------------------------------------------------------------------
\* Format chunks over the whole range of channel counts (SpecWide)
\* ------------------------------------------------------------------------
\* C13: NewFormatChunkData selects Extensible exactly when the channel count
\* exceeds 2 or the sample type is Int24 or Int32, otherwise PCM for Uint8 and
\* Int16 and IEEE float for Float32 and Float64; with Extensible the three
\* extension fields are present (valid bits = bits per sample, channel mask
\* 0, sub-format the plain code of the sample type), otherwise all three are
\* absent.
C13_ExtensibleRule ==
    LET plain == IF sampleType \in {SampleTypeFloat32, SampleTypeFloat64} THEN 3 ELSE 1
        wide == formatChunkData.ChannelCount > 2 \/
                sampleType \in {SampleTypeInt24, SampleTypeInt32}
    IN phase \in {"write", "read"} =>
         /\ (formatChunkData.FormatCode = 65534) <=> wide
         /\ ~wide => /\ formatChunkData.FormatCode = plain
                     /\ formatChunkData.ValidBitsPerSample = NilInt
                     /\ formatChunkData.ChannelMask = NilInt
                     /\ formatChunkData.SubFormat = NilInt
         /\ wide => /\ formatChunkData.ValidBitsPerSample = formatChunkData.BitsPerSample
                    /\ formatChunkData.ChannelMask = 0
                    /\ formatChunkData.SubFormat = plain

\* a format chunk that is Extensible because of its channel count alone
C13_Witness ==
    /\ phase = "write"
    /\ sampleType = SampleTypeFloat32
    /\ formatChunkData.ChannelCount = 3
    /\ formatChunkData.FormatCode = FormatCodeExtensible
    /\ formatChunkData.SubFormat = FormatCodeIEEEFloat
    /\ formatChunkData.ValidBitsPerSample = 32

\* C19: the header parsed from a file that the Writer produced (any sample
\* type, any channel count, any appends, a successful Flush) passes Validate.
C19_WriterValidates ==
    (phase = "read" /\ result.op = "Validate") => result.err = Nil

\* ------------------------------------------------------------------------
\* Streams that are not well-formed files
\* ------------------------------------------------------------------------
\* C11: over any sequence of Header and ReadT calls on one Reader the stream
\* is scanned at most once, and every Header call after the first call
\* returns what the first Header call returned and leaves the stream
\* position where it was.
C11_ScanOnce ==
    [][/\ hist'.scans <= 1
       /\ (HeaderStep /\ hist.headerCalls + hist.reads + hist.badReads >= 1)
              => baseReader' = baseReader
       /\ (HeaderStep /\ hist.headerCalls >= 1)
              => (result'.err = hist.first.err /\ header' = hist.first.header)]_vars

\* the first scan of the stream takes place in this step
FirstScan == hist.scans = 0 /\ hist'.scans = 1

\* C15: the scan fails with ErrRIFFChunkCorruptedHeader when the first four
\* bytes are not "RIFF" or the bytes 8..11 are not "WAVE", and with an
\* end-of-stream error when the stream ends inside the 12-byte root header:
\* io.EOF when no byte of the field being read is present, and
\* io.ErrUnexpectedEOF when the field is partly present; no container data
\* is returned in any of these cases.
C15_RootHeader ==
    [][FirstScan =>
         LET L == Len(baseReader.s)
             badRIFF == L >= 4 /\ SubSeq(baseReader.s, 1, 4) # <<82, 73, 70, 70>>
             badWAVE == L >= 12 /\ SubSeq(baseReader.s, 9, 12) # <<87, 65, 86, 69>>
             short == L < 12
             expected == IF L < 4 THEN (IF L = 0 THEN "EOF" ELSE "ErrUnexpectedEOF")
                         ELSE IF badRIFF THEN "ErrRIFFChunkCorruptedHeader"
                         ELSE IF short THEN (IF L % 4 = 0 THEN "EOF" ELSE "ErrUnexpectedEOF")
                         ELSE "ErrRIFFChunkCorruptedHeader"
         IN (badRIFF \/ badWAVE \/ short) =>
               /\ result'.err = expected
               /\ header' = NilRec
               /\ ReadRIFFChunk(baseReader).fileSize = 0
               /\ ReadRIFFChunk(baseReader).chunks = <<>>]_vars

\* a whole file whose type tag is damaged was scanned
C15_Witness ==
    /\ hist.scans = 1
    /\ hist.damage = 12
    /\ hist.cut > 12
    /\ hist.cut = Len(ScanFile(hist.kinds))
    /\ result.op = "Header"
    /\ result.err = "ErrRIFFChunkCorruptedHeader"
    /\ header = NilRec

\* C16: the scan fails with an end-of-stream error whenever the stream is
\* shorter than the total size its root header declares, wherever it ends
\* (inside a chunk id, a chunk size, a chunk body or at a chunk boundary), and
\* a file that has no data chunk is rejected with an error.
C16_PrematureEnd ==
    [][(FirstScan /\ hist.damage = 0 /\ hist.cut >= 12) =>
         /\ (Len(baseReader.s) < readUint32(SubSeq(baseReader.s, 5, 8)) + 8)
               => result'.err \in {"EOF", "ErrUnexpectedEOF"}
         /\ (\A i \in 1..Len(hist.kinds) : hist.kinds[i] # "data")
               => result'.err # Nil]_vars

\* the stream is a whole, undamaged file
Intact == hist.damage = 0 /\ hist.cut = Len(ScanFile(hist.kinds))

\* C17: the header build classifies every scanned chunk by its id: the
\* format chunk becomes FormatData, fact and cue chunks become FactData and
\* CueData (absent when there is none), a data chunk only sets DataBytes to
\* its declared size, and every other chunk is kept unchanged and in scan
\* order in AdditionalChunks; a corrupted payload fails the build with the
\* error of its deserializer, and ErrHeaderMissingFmtChunk is returned
\* exactly when no payload is corrupted and there is no format chunk.
C17_Classification ==
    [][(FirstScan /\ HeaderStep /\ Intact) =>
         LET K == hist.kinds
             isBad(k) == k \in {"fmtShort", "factShort"}
             isFmt(k) == k \in {"fmtA", "fmtB"}
             isOther(k) == k \in {"list", "junk"}
             has(k) == \E i \in 1..Len(K) : K[i] = k
             bad == SelectSeq(K, isBad)
             fmts == SelectSeq(K, isFmt)
             others == SelectSeq(K, isOther)
             fixed(code, rate, align, bits) ==
                 [FormatCode |-> code, ChannelCount |-> 1, FrameRate |-> 8000,
                  ByteRate |-> rate, BlockAlign |-> align, BitsPerSample |-> bits,
                  ValidBitsPerSample |-> NilInt, ChannelMask |-> NilInt, SubFormat |-> NilInt]
         IN IF bad # <<>>
            THEN /\ header' = NilRec
                 /\ result'.err = IF bad[1] = "fmtShort" THEN "ErrFmtChunkCorruptedPayload"
                                   ELSE "ErrFactChunkCorruptedPayload"
            ELSE IF fmts = <<>>
            THEN header' = NilRec /\ result'.err = "ErrHeaderMissingFmtChunk"
            ELSE /\ result'.err = Nil
                 /\ header'.FormatData = IF fmts[Len(fmts)] = "fmtA"
                                          THEN fixed(1, 8000, 1, 8)
                                          ELSE fixed(3, 32000, 4, 32)
                 /\ header'.FactData = IF has("fact") THEN [SampleFrames |-> 3] ELSE NilRec
                 /\ header'.CueData = IF has("cue") THEN [CuePoints |-> <<>>] ELSE NilRec
                 /\ header'.DataBytes = IF has("data") THEN 3 ELSE 0
                 /\ header'.AdditionalChunks =
                       [i \in 1..Len(others) |->
                          IF others[i] = "list"
                          THEN [ID |-> <<76, 73, 83, 84>>, Size |-> 3, Body |-> <<9, 8, 7>>]
                          ELSE [ID |-> <<74, 85, 78, 75>>, Size |-> 2, Body |-> <<5, 6>>]]]_vars

\* a file with two unrecognized chunks around its format chunk was parsed
C17_Witness ==
    /\ Intact
    /\ hist.kinds = <<"junk", "fmtB", "list">>
    /\ result.op = "Header"
    /\ result.err = Nil
    /\ header # NilRec
    /\ Len(header.AdditionalChunks) = 2
    /\ header.AdditionalChunks[1].ID = JunkChunkID

\* ------------------------------------------------------------------------
\* Header values (SpecHeader)
\* ------------------------------------------------------------------------
\* C18: SampleType returns Uint8/Int16/Int24/Int32 when the effective format
\* code (the sub-format when the code is Extensible) is PCM and the bit width
\* is 8/16/24/32, Float32/Float64 when it is IEEE float and the width is
\* 32/64, and an error for every other combination, among them an effective
\* code that is neither PCM nor IEEE float and a missing sub-format.
C18_SampleType ==
    (phase = "header" /\ result.op = "SampleType") =>
        LET code == header.FormatData.FormatCode
            effective == IF code = 65534 THEN header.FormatData.SubFormat ELSE code
            bits == header.FormatData.BitsPerSample
        IN IF effective = 1 /\ bits \in {8, 16, 24, 32}
           THEN /\ result.err = Nil
                /\ <<bits, result.type>> \in {<<8, SampleTypeUint8>>, <<16, SampleTypeInt16>>,
                                              <<24, SampleTypeInt24>>, <<32, SampleTypeInt32>>}
           ELSE IF effective = 3 /\ bits \in {32, 64}
           THEN /\ result.err = Nil
                /\ <<bits, result.type>> \in {<<32, SampleTypeFloat32>>,
                                              <<64, SampleTypeFloat64>>}
           ELSE result.err # Nil

\* C20: on a consistent header Validate returns nil; with one of the format
\* code (set to an unknown value), the byte rate, the block align or the fact
\* frame count made wrong, or an extension field set although the code is
\* not Extensible, it returns an error that names that field; with several
\* of them wrong it reports the first in the order format code, byte rate,
\* block align, fact frame count, extension fields.
C20_ValidateOrder ==
    (phase = "header" /\ result.op = "Validate" /\ hist.plain) =>
        LET extensionFields ==
                hist.corrupted \cap {"valid bits per sample", "channel mask", "sub format"}
        IN IF "format code" \in hist.corrupted THEN result.err = "format code"
           ELSE IF "byte rate" \in hist.corrupted THEN result.err = "byte rate"
           ELSE IF "block align" \in hist.corrupted THEN result.err = "block align"
           ELSE IF "sample frames" \in hist.corrupted THEN result.err = "sample frames"
           ELSE IF extensionFields # {} THEN result.err \in extensionFields
           ELSE result.err = Nil

\* a header with a wrong byte rate and a wrong fact frame count was validated
C20_Witness ==
    /\ phase = "header"
    /\ result.op = "Validate"
    /\ hist.plain
    /\ hist.corrupted = {"byte rate", "sample frames"}
    /\ result.err = "byte rate"

\* ------------------------------------------------------------------------
\* 24-bit packing (SpecPack)
\* ------------------------------------------------------------------------
\* C21: WritePackedInt24 writes 3 bytes per value, lowest byte first, and
\* unpacking the bytes written for values within [-8388608, 8388607] yields
\* the values again, sign included; ReadPackedInt24 returns
\* ErrIOInvalid24BitInput for every input whose length is no multiple of 3.
C21_PackRoundTrip ==
    (phase = "pack" /\ result.op # "start") =>
        /\ Len(Stream) = 3 * Len(hist.samples)
        /\ \A i \in 1..Len(hist.samples) :
              /\ Stream[3 * i - 2] = hist.samples[i] % 256
              /\ Stream[3 * i - 1] = (hist.samples[i] \div 256) % 256
              /\ Stream[3 * i] = (hist.samples[i] \div 65536) % 256
        /\ (result.op = "ReadPackedInt24" /\ hist.k % 3 # 0) =>
              result.err = "ErrIOInvalid24BitInput"
        /\ (result.op = "ReadPackedInt24" /\ hist.k % 3 = 0) =>
              /\ result.err = Nil
              /\ result.data = SubSeq(hist.samples, 1, hist.k \div 3)

\* negative and positive values came back from the bytes written for them
C21_Witness ==
    /\ phase = "pack"
    /\ result.op = "ReadPackedInt24"
    /\ result.err = Nil
    /\ hist.samples = <<-8388608, 66051, -1>>
    /\ result.data = hist.samples

\* ------------------------------------------------------------------------
\* Format chunk payloads (SpecFormat)
\* ------------------------------------------------------------------------
\* C22: Serialize returns 16 bytes for PCM, 18 bytes for IEEE float (the last
\* two a zero extension size) and 40 bytes for Extensible (extension size 22,
\* valid bits, channel mask, the sub-format code and the fixed 14 bytes of
\* the GUID), each the size ChunkSize gives; for Extensible with any of the
\* three extension fields absent it returns ErrFmtChunkInvalidExtensible.
C22_SerializeSize ==
    (phase = "format" /\ result.op = "Serialize") =>
        LET c == formatChunkData
            absent == c.ValidBitsPerSample = NilInt \/ c.ChannelMask = NilInt \/
                      c.SubFormat = NilInt
        IN CASE c.FormatCode = 1 ->
                  /\ result.err = Nil
                  /\ Len(result.data) = 16
                  /\ FormatChunkSize(c) = 16
             [] c.FormatCode = 3 ->
                  /\ result.err = Nil
                  /\ Len(result.data) = 18
                  /\ FormatChunkSize(c) = 18
                  /\ SubSeq(result.data, 17, 18) = <<0, 0>>
             [] c.FormatCode = 65534 /\ absent ->
                  result.err = "ErrFmtChunkInvalidExtensible"
             [] c.FormatCode = 65534 /\ ~absent ->
                  /\ result.err = Nil
                  /\ Len(result.data) = 40
                  /\ FormatChunkSize(c) = 40
                  /\ SubSeq(result.data, 17, 18) = <<22, 0>>
                  /\ readUint16(SubSeq(result.data, 19, 20)) = c.ValidBitsPerSample
                  /\ readUint32(SubSeq(result.data, 21, 24)) = c.ChannelMask
                  /\ readUint16(SubSeq(result.data, 25, 26)) = c.SubFormat
                  /\ SubSeq(result.data, 27, 40) =
                        <<0, 0, 0, 0, 16, 0, 128, 0, 0, 170, 0, 56, 155, 113>>
             [] OTHER -> TRUE

\* an Extensible format chunk with IEEE float inside was serialized
C22_Witness ==
    /\ phase = "format"
    /\ result.op = "Serialize"
    /\ result.err = Nil
    /\ formatChunkData.FormatCode = FormatCodeExtensible
    /\ formatChunkData.SubFormat = FormatCodeIEEEFloat
    /\ formatChunkData.ChannelCount = 3
    /\ Len(result.data) = 40

\* C23: DeserializeFormatChunk returns ErrFmtChunkCorruptedPayload for every
\* payload shorter than 16 bytes and returns normally for every longer one;
\* the three extension fields are set exactly when the payload has at least
\* 18 bytes and its extension size is 22 or more, and all absent otherwise.
C23_DeserializeFormat ==
    (phase = "format" /\ result.op = "Deserialize") =>
        LET p == baseReader.s
            extended == Len(p) >= 18 /\ readUint16(SubSeq(p, 17, 18)) >= 22
        IN IF Len(p) < 16 THEN result.err = "ErrFmtChunkCorruptedPayload"
           ELSE /\ result.err # "panic"
                /\ result.err = Nil =>
                      /\ (result.data.ValidBitsPerSample # NilInt) <=> extended
                      /\ (result.data.ChannelMask # NilInt) <=> extended
                      /\ (result.data.SubFormat # NilInt) <=> extended

\* ------------------------------------------------------------------------
\* Cue chunk payloads (SpecCue)
\* ------------------------------------------------------------------------
\* C24: on a payload whose first 4 bytes declare n cue points, the cue
\* deserializer returns ErrCueChunkCorruptedPayload when the payload is
\* shorter than 4 bytes or shorter than 4 + 24n bytes; otherwise it returns
\* n cue points, point i decoded from the 24 bytes at [4 + 24i, 4 + 24(i+1)).
C24_CueLayout ==
    (phase = "cue" /\ result.op = "DeserializeCueChunk") =>
        LET p == baseReader.s
            n == readUint32(Slice(p, 0, 4))
            at(i, from) == readUint32(Slice(p, 4 + 24 * i + from, 4 + 24 * i + from + 4))
        IN IF Len(p) < 4 THEN result.err = "ErrCueChunkCorruptedPayload"
           ELSE IF Len(p) < 4 + 24 * n THEN result.err = "ErrCueChunkCorruptedPayload"
           ELSE /\ result.err = Nil
                /\ Len(result.data.CuePoints) = n
                /\ \A i \in 0..(n - 1) :
                      LET c == result.data.CuePoints[i + 1]
                      IN /\ c.ID = at(i, 0)
                         /\ c.Position = at(i, 4)
                         /\ c.FCCChunk = Slice(p, 4 + 24 * i + 8, 4 + 24 * i + 12)
                         /\ c.ChunkStart = at(i, 12)
                         /\ c.BlockStart = at(i, 16)
                         /\ c.SampleOffset = at(i, 20)

\* ------------------------------------------------------------------------
\* Headers parsed from arbitrary streams (SpecParsed)
\* ------------------------------------------------------------------------
\* C25: on every Header that Reader.Header returns, Validate, FrameCount and
\* SampleCount return a value or an error and never panic, also when the
\* parsed format chunk has a block align of 0, a channel count of 0 or fewer
\* than 8 bits per sample.
C25_NoPanic ==
    (phase = "parsed" /\ header # NilRec /\
     result.op \in {"Validate", "FrameCount", "SampleCount"}) =>
        result.err # "panic"

\* ------------------------------------------------------------------------
\* Appends and Flushes in any order (Spec)
\* ------------------------------------------------------------------------
\* C26: after any interleaving of appends and Flush calls that ends with a
\* successful Flush, the dataBytes bytes after the preamble are the encodings
\* of all appended samples in call order, and the stream is RIFF size + 8
\* bytes long.
C26_Interleaved ==
    JustFlushed =>
        /\ Slice(Stream, PreambleLen, PreambleLen + dataBytes) =
              EncodeAll(sampleType, hist.samples)
        /\ Len(Stream) = RIFFSizeField + 8

\* a step that is a Flush call
FlushStep == phase = "write" /\ hist'.flushes = hist.flushes + 1

\* a step that is an append with the Writer's own sample type
AppendStep == phase = "write" /\ hist'.appends = hist.appends + 1

\* C27: a Flush, in every state it can be called in, changes only bytes at
\* the offsets [0, P) and may add one zero byte at the end of the stream; no
\* byte already written at an offset >= P changes its value.
C27_FlushFrame ==
    [][FlushStep =>
         LET old == baseWriter.buf
             new == baseWriter'.buf
             base == IF Len(old) < PreambleLen THEN PreambleLen ELSE Len(old)
         IN /\ \A i \in (PreambleLen + 1)..Len(old) : new[i] = old[i]
            /\ \/ Len(new) = base
               \/ Len(new) = base + 1 /\ new[Len(new)] = 0
            /\ Len(new) >= Len(old)]_vars

\* C28: of the append calls on one Writer (appends of zero samples
\* included) exactly one, the first successful one, writes the preamble at
\* offset 0; every later append only seeks to the end and appends there.
C28_PreambleOnce ==
    [][(AppendStep /\ result'.err = Nil) =>
         /\ (hist'.preambles = hist.preambles + 1) <=> (hist.appends = 0)
         /\ (hist.appends > 0) =>
               /\ hist'.preambles = hist.preambles
               /\ SubSeq(baseWriter'.buf, 1, Len(baseWriter.buf)) = baseWriter.buf
               /\ baseWriter'.idx = Len(baseWriter'.buf)]_vars

\* C29: a Flush that fails with ErrWriterInvalidByteCount leaves the stream
\* bytes, the stream position, the running byte count and the fact chunk
\* unchanged; once the caller has appended the samples that complete the
\* frame, the next Flush succeeds and the stream is the one the same appends
\* followed by that Flush alone produce.
C29_FailedFlush ==
    /\ [][(FlushStep /\ result'.err = "ErrWriterInvalidByteCount") =>
             UNCHANGED <<baseWriter, dataBytes, factChunkData>>]_vars
    /\ [][(FlushStep /\ hist.flushes > hist.okFlushes /\ hist.okFlushes = 0 /\
           remainder(dataBytes, formatChunkData) = 0) =>
             /\ result'.err = Nil
             /\ baseWriter'.buf =
                   preambleBytes(formatChunkData,
                                 IF factChunkData = NilRec THEN NilRec
                                 ELSE [SampleFrames |->
                                         AppendedBytes \div formatChunkData.BlockAlign],
                                 AppendedBytes) \o
                   EncodeAll(sampleType, hist.samples) \o Zeros(AppendedBytes % 2)]_vars

\* a Flush failed on a torn frame, the frame was completed and Flush succeeded
C29_Witness ==
    /\ JustFlushed
    /\ hist.flushes = 2
    /\ hist.okFlushes = 1
    /\ hist.appends = 2
    /\ Len(hist.samples) = 2
    /\ formatChunkData.ChannelCount = 2
    /\ factChunkData # NilRec
    /\ FactField = 1

\* C30: from the first successful append until Flush is called, the
\* data-chunk size field and the fact frame count stored in the stream are 0
\* however many bytes were appended; the header fields stored in the stream
\* change only during Flush.
C30_ApproximateHeader ==
    /\ []((phase = "write" /\ hist.appends >= 1 /\ hist.flushes = 0) =>
            /\ DataSizeField = 0
            /\ (factChunkData # NilRec) => FactField = 0)
    /\ [][(phase = "write" /\ ~FlushStep /\ Len(baseWriter.buf) >= PreambleLen) =>
             SubSeq(baseWriter'.buf, 1, PreambleLen) =
               SubSeq(baseWriter.buf, 1, PreambleLen)]_vars

\* two appends added samples to a Writer with a fact chunk, no Flush yet
C30_Witness ==
    /\ phase = "write"
    /\ hist.appends = 2
    /\ hist.flushes = 0
    /\ Len(hist.samples) = 4
    /\ dataBytes = AppendedBytes
    /\ factChunkData # NilRec
    /\ DataSizeField = 0
    /\ FactField = 0

\* ------------------------------------------------------------------------
\* The fact chunk of a Writer (Spec)
\* ------------------------------------------------------------------------
\* the Writer's layout is not plain PCM: a float type, more than 2 channels,
\* Int24 or Int32
NotPlainPCM ==
    \/ sampleType \in {SampleTypeFloat32, SampleTypeFloat64}
    \/ sampleType \in {SampleTypeInt24, SampleTypeInt32}
    \/ formatChunkData.ChannelCount > 2

\* C31: a Writer has a fact chunk, with frame count 0 until Flush, if and
\* only if its format is not plain PCM (Float32/Float64 with any channel
\* count, and every Extensible layout); the sub-chunks of the preamble in
\* the stream are the same after every call: 'fmt ', 'fact' exactly for
\* those Writers, 'data'.
C31_FactChunk ==
    (phase = "write") =>
        LET factAt == 12 + 8 + FormatChunkSize(formatChunkData)
            dataAt == factAt + (IF NotPlainPCM THEN 12 ELSE 0)
        IN /\ (factChunkData # NilRec) <=> NotPlainPCM
           /\ (factChunkData # NilRec /\ hist.okFlushes = 0) =>
                 factChunkData.SampleFrames = 0
           /\ (Stream # <<>>) =>
                 /\ Len(Stream) >= dataAt + 8
                 /\ Slice(Stream, 12, 16) = FormatChunkID
                 /\ NotPlainPCM => Slice(Stream, factAt, factAt + 4) = FactChunkID
                 /\ Slice(Stream, dataAt, dataAt + 4) = DataChunkID
                 /\ readUint32(Slice(Stream, 16, 20)) = FormatChunkSize(formatChunkData)

\* an Int24 Writer (Extensible, PCM inside) was flushed with a frame in it
C31_Witness ==
    /\ JustFlushed
    /\ sampleType = SampleTypeInt24
    /\ formatChunkData.ChannelCount = 1
    /\ factChunkData = [SampleFrames |-> 2]
    /\ FactField = 2

\* ------------------------------------------------------------------------
\* ReadRIFFChunk step by step (SpecRiff)
\* ------------------------------------------------------------------------
\* ReadRIFFChunk returned nil
RiffDone == phase = "riff" /\ result.op = "ReadRIFFChunk" /\ result.err = Nil

\* the indexes of the data chunks among the chunks returned
DataEntries == {j \in 1..Len(result.data) : result.data[j].ID = DataChunkID}

\* the offset of the first body byte of the j-th chunk of the stream
BodyOffsetOf(j) == 12 + Len(RiffStored(SubSeq(hist.kinds, 1, j - 1))) + 8

\* C32: after a successful ReadRIFFChunk the stream position is the offset
\* of the first body byte of the data chunk, wherever the data chunk sits
\* among the sub-chunks (chunks after it are scanned too); its entry in the
\* result has an empty body and the declared size.
C32_DataPosition ==
    (RiffDone /\ Cardinality(DataEntries) = 1) =>
        \A j \in DataEntries :
            /\ baseReader.i = BodyOffsetOf(j)
            /\ result.data[j].Body = <<>>
            /\ result.data[j].Size = Len(RiffChunk(hist.kinds[j]).Body)
            /\ \A i \in 1..Len(result.data) :
                  /\ result.data[i].ID = RiffChunk(hist.kinds[i]).ID
                  /\ i # j => result.data[i].Body = RiffChunk(hist.kinds[i]).Body

\* a data chunk of 3 bytes between two other chunks was scanned
C32_Witness ==
    /\ RiffDone
    /\ hist.kinds = <<"list", "data", "junk">>
    /\ Len(result.data) = 3
    /\ baseReader.i = 32
    /\ baseReader.s[33] = 1

\* a step that is one iteration of the scan loop
IterationStep == phase = "riff" /\ hist'.scans = hist.scans + 1

\* C34: ReadRIFFChunk terminates on every finite stream: each iteration of
\* the scan loop returns an error or increases the running offset by at
\* least 8, and the call ends with an error or with the running offset at or
\* beyond the declared total file size.
C34_ScanTerminates ==
    /\ [][IterationStep =>
             \/ result'.op = "ReadRIFFChunk" /\ result'.err # Nil
             \/ /\ result'.op = "scan"
                /\ result'.data.currentOffset >= result.data.currentOffset + 8]_vars
    /\ [][(result.op = "scan" /\ result'.op = "ReadRIFFChunk" /\ result'.err = Nil) =>
             result.data.currentOffset >= result.data.fileSize]_vars
    /\ <>(phase = "riff" /\ result.op = "ReadRIFFChunk")

\* the loop ran three times, over a data chunk among them, and the call
\* returned nil
C34_Witness ==
    /\ RiffDone
    /\ hist.scans = 3
    /\ hist.kinds = <<"dataB", "list", "data">>
    /\ result.n = Len(baseReader.s)

\* ------------------------------------------------------------------------
\* Streams with several data chunks (SpecMulti)
\* ------------------------------------------------------------------------
\* the positions of the data chunks in the stream
DataKinds == {j \in 1..Len(hist.kinds) : hist.kinds[j] \in {"data", "dataB"}}

\* C33: when the scanned stream holds more than one data chunk, the Header's
\* DataBytes and the stream position after the scan belong to the same data
\* chunk, and the typed reads return exactly that chunk's bytes.
C33_SameDataChunk ==
    (phase = "scan" /\ header # NilRec /\ Cardinality(DataKinds) >= 2) =>
        \E j \in DataKinds :
            LET body == RiffChunk(hist.kinds[j]).Body
            IN /\ header.DataBytes = Len(body)
               /\ baseReader.i = BodyOffsetOf(j) + Len(hist.got)
               /\ Len(hist.got) <= Len(body)
               /\ hist.got = SubSeq(body, 1, Len(hist.got))
               /\ (result.op = "Read" /\ result.type = SampleTypeUint8 /\ hist.reads = 1) =>
                     Len(hist.got) = Min(hist.k, Len(body))

\* a read for 3 samples on a stream whose 3-byte data chunk is followed by a
\* format chunk and a 2-byte data chunk returned the 2 bytes of the latter
C33_Witness ==
    /\ phase = "scan"
    /\ hist.kinds = <<"data", "fmtA", "dataB">>
    /\ header # NilRec
    /\ result.op = "Read"
    /\ hist.k = 3
    /\ result.data = <<7, 8>>

\* ------------------------------------------------------------------------
\* The block align of a Writer (SpecWide)
\* ------------------------------------------------------------------------
\* C35: every Writer that NewWriter returns has a block align that is the
\* exact, non-zero product of its channel count and its sample width, and a
\* byte rate of frame rate times block align, so that the remainder Flush
\* computes is defined for every channel count.
C35_BlockAlign ==
    (phase = "write") =>
        /\ formatChunkData.BlockAlign = formatChunkData.ChannelCount * Size(sampleType)
        /\ formatChunkData.BlockAlign # 0
        /\ formatChunkData.ByteRate = formatChunkData.FrameRate * formatChunkData.BlockAlign
        /\ ~(result.op = "Flush" /\ result.err = "panic")

\* ------------------------------------------------------------------------
\* The format chunk's round trip (SpecFormat)
\* ------------------------------------------------------------------------
\* the values NewFormatChunkData returns
NewFormatValues ==
    {NewFormatChunkData(channelCount, 8000, s) :
         channelCount \in FormatChannelCounts, s \in SampleTypes}

\* the whole of the serialized bytes, unchanged, has been deserialized
WholeDeserialized ==
    /\ phase = "format"
    /\ result.op = "Deserialize"
    /\ hist.cut = Len(baseWriter.buf)
    /\ hist.damage = Keep

\* C36: for every value f that NewFormatChunkData returns, deserializing
\* the bytes f.Serialize() returned succeeds and yields a value equal to f
\* in every field, the three extension fields' presence and values included.
C36_RoundTrip ==
    (WholeDeserialized /\ formatChunkData \in NewFormatValues) =>
        /\ result.err = Nil
        /\ result.data = formatChunkData

\* the round trip of an Extensible format chunk of 65535 Float32 channels
C36_Witness ==
    /\ WholeDeserialized
    /\ formatChunkData \in NewFormatValues
    /\ formatChunkData.ChannelCount = 65535
    /\ result.data.FormatCode = FormatCodeExtensible
    /\ result.data.SubFormat = FormatCodeIEEEFloat
    /\ result.data.ValidBitsPerSample = 32
    /\ result.data.ChannelMask = 0
    /\ Len(baseReader.s) = 40

\* ------------------------------------------------------------------------
\* The bytes.Writer (SpecBytes)
\* ------------------------------------------------------------------------
\* a call on the bytes.Writer takes place in this step
BytesCall == phase = "bytes" /\ hist'.appends = hist.appends + 1

\* the index a Seek with the arguments of result' resolves to
Resolved ==
    LET offset == result'.data[1]
    IN IF result'.type = "SeekStart" THEN offset
       ELSE IF result'.type = "SeekCurrent" THEN baseWriter.idx + offset
       ELSE IF result'.type = "SeekEnd" THEN Len(baseWriter.buf) + offset
       ELSE 0

\* C37: after any sequence of Write and Seek calls on a bytes.Writer the
\* position lies in 0..Len(); a Write of m bytes at position i overwrites the
\* bytes [i, i + m), leaves every other byte as it was, makes Len() the
\* larger of the previous Len() and i + m and moves the position to i + m; a
\* Seek that resolves outside 0..Len() returns an error and leaves the
\* position where it was.
C37_BytesWriter ==
    /\ [](phase = "bytes" => (0 <= baseWriter.idx /\ baseWriter.idx <= Len(baseWriter.buf)))
    /\ [][(BytesCall /\ result'.op = "Write") =>
            LET i == baseWriter.idx
                m == Len(result'.data)
            IN /\ result'.err = Nil
               /\ result'.n = m
               /\ Len(baseWriter'.buf) = Max(Len(baseWriter.buf), i + m)
               /\ baseWriter'.idx = i + m
               /\ \A j \in 1..Len(baseWriter'.buf) :
                     baseWriter'.buf[j] = IF j > i /\ j <= i + m
                                          THEN result'.data[j - i]
                                          ELSE baseWriter.buf[j]]_vars
    /\ [][(BytesCall /\ result'.op = "Seek") =>
            IF Resolved < 0 \/ Resolved > Len(baseWriter.buf)
            THEN result'.err # Nil /\ baseWriter' = baseWriter
            ELSE /\ result'.err = Nil
                 /\ result'.n = Resolved
                 /\ baseWriter' = [baseWriter EXCEPT !.idx = Resolved]]_vars

\* two bytes written, the position moved back by one, and a write of two
\* bytes that replaced the second byte and added a third
C37_Witness ==
    /\ phase = "bytes"
    /\ result.op = "Write"
    /\ result.data = <<2, 1>>
    /\ baseWriter = [buf |-> <<1, 2, 1>>, idx |-> 3]
    /\ hist.appends = 3

\* ------------------------------------------------------------------------
\* The scratch buffer across calls (SpecReader)
\* ------------------------------------------------------------------------
\* cap(r.buffer) and len(r.buffer); both 0 while r.buffer is nil
ScratchCap(buf) == IF buf = NilRec THEN 0 ELSE Len(buf.arr)
ScratchLen(buf) == IF buf = NilRec THEN 0 ELSE buf.len

\* C38: over any sequence of typed reads on one Reader the capacity of the
\* scratch buffer never decreases, and after a call that went through
\* readChunk with a caller buffer of k elements of width w the scratch
\* buffer's length is at least k * w bytes.
C38_ScratchBuffer ==
    [][/\ ScratchCap(buffer') >= ScratchCap(buffer)
       /\ (MatchingRead /\ result'.type # SampleTypeUint8) =>
              ScratchLen(buffer') >= hist'.k * Size(result'.type)]_vars

====
